---------------------------- MODULE Spec2Model ----------------------------
(***************************************************************************)
(* Verification model of the Proxi agent runtime.                          *)
(*                                                                         *)
(* Three components are modelled, each with its own specification:         *)
(*   Spec      the Turn Execution Engine (proxi/core/loop.py AgentLoop)     *)
(*   SpecMCP   the Protocol Client (proxi/mcp/client.py MCPClient)          *)
(*   SpecSub   the Sub-Agent Manager (proxi/agents/registry.py)             *)
(* The variables of the components a specification does not move stay at   *)
(* their initial values.                                                   *)
(***************************************************************************)
EXTENDS Integers, Sequences, FiniteSets, TLC

(***************************************************************************)
(* Bounds of the model.                                                    *)
(***************************************************************************)
\* max_turns ranges over 1..MaxTurnsBound
MaxTurnsBound == 3
\* run + run_continue calls per session
MaxRuns == 2
\* request ids one MCPClient issues
MaxReq == 2
\* close() calls in a row
MaxCloses == 2
\* max_time ranges over 1..MaxTime clock ticks
MaxTime == 2
\* steps an agent's run() takes before it ends
MaxWork == 2
\* SubAgentManager.run calls
MaxSubCalls == 2
\* longest content array of a tools/call result
MaxItems == 2
\* servers configured in one MCPMultiplexer
MaxServers == 3
\* MCPMultiplexer.initialize calls
MaxMuxInits == 2
\* items one generate_stream call yields
MaxStream == 3

\* commands waiting on the bridge's queue
MaxQueue == 2

\* run_agent tasks one bridge creates
MaxStarts == 3

\* commands stdin_reader reads in one session
MaxCommands == 3

\* register calls made on the two registries together
MaxRegs == 3

\* add_message calls on one AgentState
MaxMessages == 3

VARIABLES
    \* ---- AgentLoop / AgentState ----
    pc,             \* position of the engine task in run/_run_loop
    status,         \* AgentState.status
    current_turn,   \* AgentState.current_turn
    max_turns,      \* AgentState.max_turns (= AgentLoop.max_turns)
    history,        \* AgentState.history
    turns,          \* AgentState.turns (status and error of each TurnState)
    decision,       \* the Decision of the turn in progress
    action_results, \* results gathered so far by the batched path
    end_time,       \* AgentState.end_time is stamped
    runs,           \* number of run / run_continue calls made
    \* ---- run_bridge ----
    start_state,    \* the AgentState the bridge held when it took the start command
    aborted,        \* the bridge cancelled the run it last started
    \* ---- MCPClient ----
    process,          \* MCPClient.process: "None", or the child "alive" / "dead"
    read_task,        \* MCPClient._read_task: "None", "running", or how it ended
    initialized,      \* MCPClient.initialized
    request_id,       \* MCPClient.request_id
    pending_requests, \* keys of MCPClient.pending_requests
    future,           \* state of the future created for each request id
    caller,           \* position of the task inside _send_request, per id
    sent,             \* ids the current child was written and has not answered
    lpc,              \* position of the task that calls initialize() / close()
    init_id,          \* id of the initialize request in flight (0: none)
    close_snapshot,   \* pending ids at the moment close() was last called
    closes_in_row,    \* close() calls returned since the last other call
    close_raised,     \* a close() call let an exception out
    set_on_done,      \* ids whose future was done when set_result/set_exception ran
    late,             \* ids whose response was read after their timeout fired
    eof_outstanding,  \* ids that were outstanding when the read loop read EOF
    last_line,        \* the line _read_loop handled last
    init_response,    \* result of the server's answer to the initialize request
    init_returned,    \* what the last initialize() call returned
    \* ---- SubAgentManager ----
    mpc,            \* position of the task inside SubAgentManager.run
    sub_found,      \* registry.get(agent_name) found an agent
    max_time,       \* the max_time argument, in clock ticks
    behaviour,      \* what the agent's run() does in this call
    agent,          \* state of the agent.run(...) coroutine
    agent_left,     \* steps the agent still takes before it ends
    elapsed,        \* clock ticks since wait_for started
    timer_fired,    \* the timeout of wait_for has fired
    result,         \* what SubAgentManager.run returned
    sub_calls,      \* SubAgentManager.run calls made
    \* ---- MCPToolAdapter ----
    apc,            \* position of the task inside MCPToolAdapter.execute
    call_outcome,   \* what mcp_client.call_tool returned or raised
    execute_result, \* what the last execute() returned or raised
    \* ---- MCPMultiplexer ----
    mux_pc, \* position of the task inside MCPMultiplexer.initialize / call_tool
    mux_k, \* index of the server or adapter the for loop is at
    adapters, \* MCPMultiplexer.adapters, each by the index of its server
    mux_initialized, \* MCPMultiplexer.initialized
    connected, \* servers whose adapter.initialize() returned in the current initialize()
    mux_inits, \* initialize() calls made
    call_name, \* the tool_name argument of the call_tool in progress
    forwarded, \* adapters whose tool list held call_name in the current call_tool
    mux_result, \* what the last call_tool returned or raised
    mux_failed, \* the MCPClient objects whose initialize raised after the spawn
    mux_closed,\* how many adapters of self.adapters close() has closed
    \* ---- Planner ----
    ppc, \* position of the task inside Planner.decide
    streaming, \* stream_callback is set and the client has generate_stream
    stream, \* what generate_stream has still to yield
    stream_end, \* how generate_stream ends once it has yielded everything
    response, \* the local variable response of decide
    finals, \* the responses the stream has yielded in this call
    generate_calls, \* llm_client.generate calls made by this decide call
    chunks_sent, \* chunks handed to stream_callback in this call
    decide_result,\* what the last decide call returned or raised
    \* ---- AgentLoop._act (tool calls) ----
    fpc, \* position of the task inside _act / _handle_show_collaborative_form
    act_calls, \* the tool calls of the decision: name and arguments of each
    act_i, \* index of the call _act is executing
    has_bridge, \* AgentLoop.form_bridge is not None
    dispatched, \* names given to ToolRegistry.execute for this decision
    act_results,\* what the _act calls for this decision returned or raised
    \* ---- run_bridge command loop (proxi/bridge.py) ----
    bpc, \* where run_bridge is: get, wait, await_cancel, closed
    command_queue, \* the commands put on command_queue and not yet taken
    agent_tasks, \* the run_agent tasks created and not finished
    agent_task, \* the task run_bridge holds in agent_task (0: none)
    cancel_sent, \* the tasks agent_task.cancel() was called on
    held_cmd, \* the command that interrupted the run
    bridge_state, \* run_bridge's state variable: none or state
    started, \* number of run_agent tasks created
    stdin_eof, \* stdin_reader has put the None that follows the last line
    received, \* number of commands stdin_reader has put on command_queue
    queue_ids, \* for each command on command_queue, which command read it is
    held_id, \* which command read held_cmd is
    processed,\* the commands run_bridge has acted on, in the order it did
    \* ---- Reflector (proxi/core/reflection.py) ----
    enable_reflection, \* Reflector.enabled, from AgentLoop(enable_reflection=...)
    reflections,\* the turn.reflection values the loop has stored, with their turn numbers
    \* ---- SubAgentRegistry and ToolRegistry ----
    reg_agents, \* SubAgentRegistry._agents: the dict, its items in insertion order
    reg_tools, \* ToolRegistry._tools: the dict, its items in insertion order
    raw_specs, \* ToolRegistry._raw_specs
    agents_registered, \* the agents given to SubAgentRegistry.register, in call order
    tools_registered,\* the tools given to ToolRegistry.register, in call order
    \* ---- AgentState.add_message (proxi/core/state.py) ----
    state_history, \* AgentState.history of a state messages are added to
    transcript, \* the lines of the workspace's history.jsonl
    add_ended \* how the last add_message call ended: returned or raised

loopVars == <<pc, status, current_turn, max_turns, history, turns, decision,
              action_results, end_time, runs>>

mcpVars == <<process, read_task, initialized, request_id, pending_requests,
             future, caller, sent, lpc, init_id, close_snapshot, closes_in_row,
             close_raised, set_on_done, late, eof_outstanding>>

subVars == <<mpc, sub_found, max_time, behaviour, agent, agent_left, elapsed,
             timer_fired, result, sub_calls>>

bridgeVars == <<start_state, aborted>>

wireVars == <<last_line>>

initVars == <<init_response, init_returned>>

adapterVars == <<apc, call_outcome, execute_result>>

muxVars == <<mux_pc, mux_k, adapters, mux_initialized, connected, mux_inits, call_name, forwarded, mux_result,
             mux_failed, mux_closed>>

plannerVars == <<ppc, streaming, stream, stream_end, response, finals, generate_calls, chunks_sent, decide_result>>

actVars == <<fpc, act_calls, act_i, has_bridge, dispatched, act_results>>

sessVars == <<bpc, command_queue, agent_tasks, agent_task, cancel_sent, held_cmd, bridge_state, started,
              stdin_eof, received, queue_ids, held_id, processed>>

reflVars == <<enable_reflection, reflections>>

regVars == <<reg_agents, reg_tools, raw_specs, agents_registered, tools_registered>>

histVars == <<state_history, transcript, add_ended>>

vars == <<loopVars, bridgeVars, mcpVars, wireVars, initVars, subVars, adapterVars, muxVars, plannerVars, actVars, sessVars, reflVars, regVars, histVars>>

\* what the actions of one component leave alone
notLoop == <<mcpVars, wireVars, initVars, subVars, adapterVars, muxVars, plannerVars, actVars, sessVars, reflVars, regVars, histVars>>
notMCP == <<loopVars, bridgeVars, wireVars, initVars, subVars, adapterVars, muxVars, plannerVars, actVars, sessVars, reflVars, regVars, histVars>>
notSub == <<loopVars, bridgeVars, mcpVars, wireVars, initVars, adapterVars, muxVars, plannerVars, actVars, sessVars, reflVars, regVars, histVars>>
notAdapter == <<loopVars, bridgeVars, mcpVars, wireVars, initVars, subVars, muxVars, plannerVars, actVars, sessVars, reflVars, regVars, histVars>>
notMux == <<loopVars, bridgeVars, mcpVars, wireVars, initVars, subVars, adapterVars, plannerVars, actVars, sessVars, reflVars, regVars, histVars>>
notPlanner == <<loopVars, bridgeVars, mcpVars, wireVars, initVars, subVars, adapterVars, muxVars, actVars, sessVars, reflVars, regVars, histVars>>
notAct == <<loopVars, bridgeVars, mcpVars, wireVars, initVars, subVars, adapterVars, muxVars, plannerVars, sessVars, reflVars, regVars, histVars>>
notSess == <<loopVars, bridgeVars, mcpVars, wireVars, initVars, subVars, adapterVars, muxVars, plannerVars, actVars, reflVars, regVars, histVars>>
notRefl == <<loopVars, bridgeVars, mcpVars, wireVars, initVars, subVars, adapterVars, muxVars, plannerVars, actVars, sessVars, regVars, histVars>>

\* what the reflect step of the loop leaves alone
notLoopReflect == <<mcpVars, wireVars, initVars, subVars, adapterVars, muxVars, plannerVars, actVars, sessVars, regVars, histVars>>
notReg == <<loopVars, bridgeVars, mcpVars, wireVars, initVars, subVars, adapterVars, muxVars, plannerVars, actVars, sessVars, reflVars, histVars>>
notHist == <<loopVars, bridgeVars, mcpVars, wireVars, initVars, subVars, adapterVars, muxVars, plannerVars, actVars, sessVars, reflVars, regVars>>

(***************************************************************************)
(* Values                                                                  *)
(***************************************************************************)
None == "None"

\* Message(role, content, name, tool_call_id, tool_calls); tool_calls None is <<>>
Message(role, content, name, tool_call_id, tool_calls) ==
    [role |-> role, content |-> content, name |-> name,
     tool_call_id |-> tool_call_id, tool_calls |-> tool_calls]

\* the tools the registry holds; any other name is not registered
RegisteredTools == {"calc"}

ToolCall(id, name) == [id |-> id, name |-> name]

\* ModelDecision values the planner may hand back.  A TOOL_CALL carries the
\* descriptors of its calls; payload id/name are those of the first call.
\* A RESPOND carries payload["content"].
Respond(content) == [type |-> "respond", calls |-> <<>>, content |-> content]
RespondDecision == Respond("hi")
SubAgentDecision == [type |-> "sub_agent_call", calls |-> <<>>, content |-> None]
ToolDecision(calls) == [type |-> "tool_call", calls |-> calls, content |-> None]
NoDecision == [type |-> None, calls |-> <<>>, content |-> None]

Decisions ==
    { RespondDecision, Respond(""), SubAgentDecision,
      ToolDecision(<<ToolCall("a", "calc")>>),
      ToolDecision(<<ToolCall("a", "missing")>>),
      ToolDecision(<<ToolCall("a", "calc"), ToolCall("b", "calc")>>),
      ToolDecision(<<ToolCall("a", "calc"), ToolCall("b", "missing")>>) }

\* DecisionType.TOOL_CALL branch: the descriptors the assistant message carries
\* (decision.payload["tool_calls"], or the one-item list built from the payload)
tool_calls_of(d) == d.calls

(***************************************************************************)
(* AgentState helpers (proxi/core/state.py)                                *)
(***************************************************************************)
is_done(s) == s \in {"COMPLETED", "FAILED", "CANCELLED"}

\* a loop condition that lets the turn after the last one start
can_continueInclusive(s, turn, maxT) == s = "RUNNING" /\ turn <= maxT

\* AgentState.can_continue
can_continue(s, turn, maxT) ==
    /\ ~is_done(s)
    /\ turn < maxT
    /\ s = "RUNNING"

add_message(h, m) == Append(h, m)

\* TurnState: turn_number, status, decision, error; run is not a field of the
\* class: it records which call of run / run_continue made the turn
TurnState(n, st, err, r) ==
    [turn_number |-> n, status |-> st, decision |-> NoDecision, error |-> err,
     run |-> r]

\* turn.status = st (and turn.error = err) on the current turn
SetTurn(ts, st, err) ==
    [ts EXCEPT ![Len(ts)].status = st, ![Len(ts)].error = err]

\* turn.decision = decision.model_dump()
SetDecision(ts, d) == [ts EXCEPT ![Len(ts)].decision = d]

\* a retry policy that never gives up
should_retryAlways(turnStatus, turn, maxT) == TRUE

\* Reflector.should_retry
should_retry(turnStatus, turn, maxT) ==
    IF turnStatus # "ERROR" THEN FALSE
    ELSE IF turn >= maxT THEN FALSE
    ELSE TRUE

(***************************************************************************)
(* Tool execution and observation                                          *)
(***************************************************************************)
ToolResult(tool, success, error) ==
    [type |-> "tool_call", tool |-> tool, success |-> success, error |-> error]

\* ToolRegistry.execute: what a call can come back with.  "raise" stands for
\* tool.execute (or the form bridge) raising; the registry has no handler.
ToolOutcomes(call) ==
    IF call.name \notin RegisteredTools
    THEN {ToolResult(call.name, FALSE, "not_found")}
    ELSE {ToolResult(call.name, TRUE, None),
          ToolResult(call.name, FALSE, "tool_failed"),
          [type |-> "raise", tool |-> call.name, success |-> FALSE,
           error |-> "tool_raised"]}

SubAgentOutcomes ==
    {[type |-> "sub_agent_call", tool |-> "agent", success |-> TRUE, error |-> None],
     [type |-> "sub_agent_call", tool |-> "agent", success |-> FALSE,
      error |-> "agent_failed"]}

\* an observation that says nothing of the result
observeUnknown(r) == [kind |-> "unknown", tool |-> None, text |-> r.type]

\* AgentLoop.observe: the observation text, kept as its parts
observe(r) ==
    IF r.type = "tool_call"
    THEN IF r.success
         THEN [kind |-> "tool_ok", tool |-> r.tool, text |-> "output"]
         ELSE [kind |-> "tool_failed", tool |-> r.tool, text |-> r.error]
    ELSE IF r.type = "respond"
    THEN [kind |-> "text", tool |-> None, text |-> "content"]
    ELSE IF r.type = "sub_agent_call"
    THEN IF r.success
         THEN [kind |-> "agent_ok", tool |-> r.tool, text |-> "summary"]
         ELSE [kind |-> "agent_failed", tool |-> r.tool, text |-> r.error]
    ELSE [kind |-> "unknown", tool |-> None, text |-> r.type]

NoContent == [kind |-> None, tool |-> None, text |-> None]
\* a text of which nothing reaches the message
TextContentEmpty(t) == [kind |-> "text", tool |-> None, text |-> ""]

TextContent(t) == [kind |-> "text", tool |-> None, text |-> t]

UserMessage == Message("user", TextContent("task"), None, None, <<>>)

\* an assistant message that declares tool calls and carries text as well
AssistantToolCallsWithText(calls) ==
    Message("assistant", TextContent("thinking"), None, None, calls)

AssistantToolCalls(calls) == Message("assistant", NoContent, None, None, calls)

\* the tool-role messages of a finished TOOL_CALL turn, one per gathered result
RECURSIVE ToolMessages(_, _)
ToolMessages(calls, results) ==
    IF results = <<>> THEN <<>>
    ELSE <<Message("tool", observe(Head(results)), Head(calls).name,
                   Head(calls).id, <<>>)>>
         \o ToolMessages(Tail(calls), Tail(results))

(***************************************************************************)
(* AgentLoop (proxi/core/loop.py)                                          *)
(***************************************************************************)
\* the finally block of _run_loop coerces a status still RUNNING
FinalStatusKeepsRunning(s) == s

FinalStatus(s) == IF s = "RUNNING" THEN "COMPLETED" ELSE s

\* the fields of AgentState a later run_continue reads
AgentStateFields ==
    [status |-> status, current_turn |-> current_turn, history |-> history,
     turns |-> turns]

\* AgentState(): the defaults of a state nobody has run
NoState == [status |-> "IDLE", current_turn |-> 0, history |-> <<>>, turns |-> <<>>]

\* AgentLoop.run: a fresh AgentState seeded with the user message
Run ==
    /\ UNCHANGED notLoop
    /\ start_state' = AgentStateFields
    /\ aborted' = FALSE
    /\ pc = "idle"
    /\ runs = 0
    /\ status' = "RUNNING"
    /\ current_turn' = 0
    /\ history' = add_message(<<>>, UserMessage)
    /\ turns' = <<>>
    /\ end_time' = FALSE
    /\ runs' = runs + 1
    /\ pc' = "loop"
    /\ UNCHANGED <<max_turns, decision, action_results>>

\* AgentLoop.run_continue: the previous state, one more user message
RunContinue ==
    /\ UNCHANGED notLoop
    /\ start_state' = AgentStateFields
    /\ aborted' = FALSE
    /\ pc = "returned"
    /\ runs < MaxRuns
    /\ history' = add_message(history, UserMessage)
    /\ status' = "RUNNING"
    /\ end_time' = FALSE
    /\ runs' = runs + 1
    /\ pc' = "loop"
    /\ UNCHANGED <<current_turn, max_turns, turns, decision, action_results>>

\* while state.can_continue(): a new turn, up to the await of _decide
StartTurn ==
    /\ UNCHANGED <<notLoop, bridgeVars>>
    /\ pc = "loop"
    /\ can_continue(status, current_turn, max_turns)
    /\ current_turn' = current_turn + 1
    /\ turns' = Append(turns, TurnState(current_turn + 1, "DECIDING", None, runs))
    /\ pc' = "decide"
    /\ UNCHANGED <<status, max_turns, history, decision, action_results,
                   end_time, runs>>

\* the while condition is false: fall through to the finally block
LoopExit ==
    /\ UNCHANGED <<notLoop, bridgeVars>>
    /\ pc = "loop"
    /\ ~can_continue(status, current_turn, max_turns)
    /\ pc' = "finally"
    /\ UNCHANGED <<status, current_turn, max_turns, history, turns, decision,
                   action_results, end_time, runs>>

\* an engine that calls decide again for the turn that failed
AfterFailedTurnReplays == "decide"

\* a failed turn that is retried falls to the end of the loop body: the next
\* thing evaluated is the while condition (lines 276-287, 108)
AfterFailedTurn == "loop"

\* except Exception as e: the turn is ERROR; stop unless the retry policy agrees
HandleException(err) ==
    /\ turns' = SetTurn(turns, "ERROR", err)
    /\ IF ~should_retry("ERROR", current_turn, max_turns)
       THEN status' = "FAILED" /\ pc' = "finally"
       ELSE status' = status /\ pc' = AfterFailedTurn
    /\ decision' = NoDecision
    /\ action_results' = <<>>

\* _decide returns: the decision is recorded and, for a TOOL_CALL, the assistant
\* message with the tool_calls is appended before the first tool runs
DecideReturn ==
    /\ UNCHANGED <<notLoop, bridgeVars>>
    /\ pc = "decide"
    /\ \E d \in Decisions :
        /\ decision' = d
        /\ history' = IF d.type = "tool_call"
                      THEN add_message(history, AssistantToolCalls(tool_calls_of(d)))
                      ELSE history
        /\ turns' = SetDecision(SetTurn(turns, "ACTING", None), d)
    /\ action_results' = <<>>
    /\ pc' = "act"
    /\ UNCHANGED <<status, current_turn, max_turns, end_time, runs>>

\* the planner (the model call) raises
DecideRaise ==
    /\ UNCHANGED <<notLoop, bridgeVars>>
    /\ pc = "decide"
    /\ HandleException("decide_raised")
    /\ UNCHANGED <<current_turn, max_turns, history, end_time, runs>>

\* one _act of a TOOL_CALL turn returns or raises; after the last one the tool
\* messages are appended (lines 193-203 batched, 231-238 single)
ActTool ==
    /\ UNCHANGED <<notLoop, bridgeVars>>
    /\ pc = "act"
    /\ decision.type = "tool_call"
    /\ LET calls == tool_calls_of(decision)
           call == calls[Len(action_results) + 1]
       IN \E r \in ToolOutcomes(call) :
            IF r.type = "raise"
            THEN /\ HandleException(r.error)
                 /\ UNCHANGED history
            ELSE LET results == Append(action_results, r)
                 IN IF Len(results) < Len(calls)
                    THEN /\ action_results' = results
                         /\ UNCHANGED <<history, turns, decision, pc, status>>
                    ELSE /\ history' = history \o ToolMessages(calls, results)
                         /\ action_results' = results
                         /\ turns' = SetTurn(turns, "REFLECTING", None)
                         /\ pc' = "reflect"
                         /\ UNCHANGED <<decision, status>>
    /\ UNCHANGED <<current_turn, max_turns, end_time, runs>>

\* _act of a RESPOND or SUB_AGENT_CALL decision, then observe
ActOther ==
    /\ UNCHANGED <<notLoop, bridgeVars>>
    /\ pc = "act"
    /\ decision.type \in {"respond", "sub_agent_call"}
    /\ IF decision.type = "sub_agent_call"
       THEN \E r \in SubAgentOutcomes :
              /\ history' = add_message(history,
                               Message("assistant", observe(r), None, None, <<>>))
              /\ action_results' = <<r>>
       ELSE /\ UNCHANGED history
            /\ action_results' = <<[type |-> "respond", tool |-> None,
                                    success |-> TRUE, error |-> None]>>
    /\ turns' = SetTurn(turns, "REFLECTING", None)
    /\ pc' = "reflect"
    /\ UNCHANGED <<status, current_turn, max_turns, decision, end_time, runs>>

\* Reflector.reflect's return value: the lines of the reflection text; no line
\* stands for None
Reflection(parts) == [text |-> parts]

NoReflection == Reflection(<<>>)

\* a reflector that fails whenever it is enabled
reflect_raisesWhenEnabled(enabled) == enabled

\* Reflector.reflect has no await and no operation that can fail (lines 22-54)
reflect_raises(enabled) == FALSE

\* Reflector.reflect(state, turn); has_result is the truth of turn.action_result
reflect(enabled, turn, has_result) ==
    IF ~enabled THEN NoReflection
    ELSE Reflection(
            (IF turn.error # None
             THEN <<"Error occurred", "Consider retrying with different approach">>
             ELSE <<>>)
            \o (IF has_result /\ turn.status = "COMPLETED"
                THEN <<"Action completed successfully">>
                ELSE <<>>))

\* what lines 258-274 do to the AgentState with a reflector enabled or not: the
\* reflection, when there is one, is stored on the turn; the turn is COMPLETED;
\* a RESPOND ends the run
ReflectEffect(enabled) ==
    IF reflect_raises(enabled)
    THEN [reflection |-> NoReflection,
          turns |-> SetTurn(turns, "ERROR", "reflect_raised"),
          status |-> IF should_retry("ERROR", current_turn, max_turns)
                     THEN status ELSE "FAILED",
          history |-> history,
          pc |-> IF should_retry("ERROR", current_turn, max_turns)
                 THEN AfterFailedTurn ELSE "finally"]
    ELSE [reflection |-> reflect(enabled, turns[Len(turns)], action_results # <<>>),
          turns |-> SetTurn(turns, "COMPLETED", None),
          status |-> IF decision.type = "respond" THEN "COMPLETED" ELSE status,
          history |-> IF decision.type = "respond"
                      THEN add_message(history,
                              Message("assistant", TextContent(decision.content),
                                      None, None, <<>>))
                      ELSE history,
          pc |-> IF decision.type = "respond" THEN "finally" ELSE "loop"]

\* reflect, mark the turn COMPLETED, and stop on RESPOND
Reflect ==
    /\ UNCHANGED <<notLoopReflect, bridgeVars>>
    /\ pc = "reflect"
    /\ LET e == ReflectEffect(enable_reflection)
       IN /\ turns' = e.turns
          /\ status' = e.status
          /\ history' = e.history
          /\ pc' = e.pc
          /\ reflections' =
                IF e.reflection # NoReflection
                THEN Append(reflections, [turn_number |-> current_turn,
                                          reflection |-> e.reflection])
                ELSE reflections
    /\ decision' = NoDecision
    /\ action_results' = <<>>
    /\ UNCHANGED <<current_turn, max_turns, end_time, runs, enable_reflection>>

\* AgentLoop(enable_reflection=True) is the default
ReflInit ==
    /\ enable_reflection = TRUE
    /\ reflections = <<>>

\* finally: stamp end_time, coerce RUNNING, return the state
Finally ==
    /\ UNCHANGED <<notLoop, bridgeVars>>
    /\ pc = "finally"
    /\ end_time' = TRUE
    /\ status' = FinalStatus(status)
    /\ pc' = "returned"
    /\ UNCHANGED <<current_turn, max_turns, history, turns, decision,
                   action_results, runs>>

\* run_bridge: a command arrives while the engine task awaits the planner or a
\* tool; the bridge cancels the task.  CancelledError passes both
\* "except Exception" handlers of _run_loop and runs its finally blocks.  The
\* bridge's state is not assigned: it stays None after a first run (whose
\* AgentState is dropped), and stays the object run_continue was mutating
\* otherwise.
Abort ==
    /\ UNCHANGED notLoop
    /\ pc \in {"decide", "act"}
    /\ aborted' = TRUE
    /\ decision' = NoDecision
    /\ action_results' = <<>>
    /\ IF start_state = NoState
       THEN /\ pc' = "idle"
            /\ status' = NoState.status
            /\ current_turn' = NoState.current_turn
            /\ history' = NoState.history
            /\ turns' = NoState.turns
            /\ end_time' = FALSE
            /\ runs' = 0
       ELSE /\ pc' = "returned"
            /\ status' = FinalStatus(status)
            /\ end_time' = TRUE
            /\ UNCHANGED <<current_turn, history, turns, runs>>
    /\ UNCHANGED <<max_turns, start_state>>

LoopInit ==
    /\ pc = "idle"
    /\ status = "IDLE"
    /\ current_turn = 0
    /\ max_turns \in 1..MaxTurnsBound
    /\ history = <<>>
    /\ turns = <<>>
    /\ decision = NoDecision
    /\ action_results = <<>>
    /\ end_time = FALSE
    /\ runs = 0
    /\ start_state = NoState
    /\ aborted = FALSE

\* the steps of the engine task itself (everything but the caller's calls)
LoopStep ==
    \/ StartTurn
    \/ LoopExit
    \/ DecideReturn
    \/ DecideRaise
    \/ ActTool
    \/ ActOther
    \/ Reflect
    \/ Finally

\* an engine that was constructed and is never run
LoopUnused ==
    /\ pc = "idle"
    /\ status = "IDLE"
    /\ current_turn = 0
    /\ max_turns = 1
    /\ history = <<>>
    /\ turns = <<>>
    /\ decision = NoDecision
    /\ action_results = <<>>
    /\ end_time = FALSE
    /\ runs = 0
    /\ start_state = NoState
    /\ aborted = FALSE

(***************************************************************************)
(* MCPClient (proxi/mcp/client.py)                                         *)
(*                                                                         *)
(* Requests are issued by any number of tasks; initialize() and close()    *)
(* are called one after the other by the task that owns the client.  A     *)
(* line of the child's stdout is modelled at the moment the read loop      *)
(* reads it.                                                               *)
(***************************************************************************)
Ids == 1..MaxReq

\* a counter that starts over
NextRequestIdRestarts(rid) == 1

\* _get_next_request_id: self.request_id += 1; return self.request_id
NextRequestId(rid) == rid + 1

FutureDone(f) == f \in {"result", "error", "cancelled"}

\* the futures close() cancels: those of pending ids that are not done
CancelNone(fut, pend) == fut

CancelNotDone(fut, pend) ==
    [i \in Ids |-> IF i \in pend /\ ~FutureDone(fut[i]) THEN "cancelled"
                   ELSE fut[i]]

\* pending_requests.clear()
Clear(pend) == {}

\* what awaiting the cancelled read task raises into close(): the read loop
\* handles every Exception itself, so the task ends normally or cancelled
AwaitReadTask(rt) ==
    IF rt = "running" THEN "CancelledError" ELSE None

\* close(), lines 193-198: only CancelledError is swallowed
CloseRaises(rt) == AwaitReadTask(rt) \notin {None, "CancelledError"}

\* lines 218-226: the last, synchronous block of close()
CloseFinalBlock ==
    /\ future' = CancelNotDone(future, pending_requests)
    /\ pending_requests' = Clear(pending_requests)
    /\ process' = None
    /\ read_task' = None
    /\ initialized' = FALSE
    /\ sent' = {}
    /\ closes_in_row' = closes_in_row + 1
    /\ lpc' = "idle"

\* a _send_request that writes the request and leaves the slot for later
RegisterAfterWrite(id) ==
    /\ request_id' = id
    /\ future' = [future EXCEPT ![id] = "pending"]
    /\ pending_requests' = pending_requests
    /\ caller' = [caller EXCEPT ![id] = "drain"]
    /\ sent' = IF process = "alive" /\ lpc # "closing" THEN sent \cup {id}
               ELSE sent

\* _send_request up to the await of drain(): the id is taken, the future is
\* registered, the request is written
Register(id) ==
    /\ request_id' = id
    /\ future' = [future EXCEPT ![id] = "pending"]
    /\ pending_requests' = pending_requests \cup {id}
    /\ caller' = [caller EXCEPT ![id] = "drain"]
    /\ sent' = IF process = "alive" /\ lpc # "closing" THEN sent \cup {id}
               ELSE sent

\* a task calls list_tools / call_tool / ... on a client that has a process
SendRequest ==
    /\ UNCHANGED notMCP
    /\ process # None
    /\ request_id < MaxReq
    /\ Register(NextRequestId(request_id))
    /\ closes_in_row' = 0
    /\ UNCHANGED <<process, read_task, initialized, lpc, init_id,
                   close_snapshot, close_raised, set_on_done, late,
                   eof_outstanding>>

\* await stdin.drain() returns
DrainOk(i) ==
    /\ UNCHANGED notMCP
    /\ caller[i] = "drain"
    /\ caller' = [caller EXCEPT ![i] = "waiting"]
    /\ UNCHANGED <<process, read_task, initialized, request_id,
                   pending_requests, future, sent, lpc, init_id,
                   close_snapshot, closes_in_row, close_raised, set_on_done,
                   late,
                   eof_outstanding>>

\* await stdin.drain() raises (broken pipe): the exception leaves
\* _send_request, nothing is removed
DrainFail(i) ==
    /\ UNCHANGED notMCP
    /\ caller[i] = "drain"
    /\ process # "alive" \/ lpc = "closing"
    /\ caller' = [caller EXCEPT ![i] = "write_failed"]
    /\ UNCHANGED <<process, read_task, initialized, request_id,
                   pending_requests, future, sent, lpc, init_id,
                   close_snapshot, closes_in_row, close_raised, set_on_done,
                   late,
                   eof_outstanding>>

\* the 30 s of wait_for pass: wait_for cancels the future; the caller runs later
TimeoutNever(i) == FALSE /\ UNCHANGED vars

Timeout(i) ==
    /\ UNCHANGED notMCP
    /\ caller[i] = "waiting"
    /\ future[i] = "pending"
    /\ future' = [future EXCEPT ![i] = "cancelled"]
    /\ caller' = [caller EXCEPT ![i] = "timedout"]
    /\ UNCHANGED <<process, read_task, initialized, request_id,
                   pending_requests, sent, lpc, init_id, close_snapshot,
                   closes_in_row, close_raised, set_on_done, late,
                   eof_outstanding>>

\* except asyncio.TimeoutError: pop the id, raise RuntimeError
TimeoutHandler(i) ==
    /\ UNCHANGED notMCP
    /\ caller[i] = "timedout"
    /\ pending_requests' = pending_requests \ {i}
    /\ caller' = [caller EXCEPT ![i] = "timeout"]
    /\ UNCHANGED <<process, read_task, initialized, request_id, future, sent,
                   lpc, init_id, close_snapshot, closes_in_row, close_raised,
                   set_on_done, late,
                   eof_outstanding>>

\* wait_for returns the result, or raises what the future holds
CallerResume(i) ==
    /\ UNCHANGED notMCP
    /\ caller[i] = "waiting"
    /\ FutureDone(future[i])
    /\ caller' = [caller EXCEPT ![i] =
                    IF future[i] = "result" THEN "ok"
                    ELSE IF future[i] = "error" THEN "error"
                    ELSE "cancelled"]
    /\ UNCHANGED <<process, read_task, initialized, request_id,
                   pending_requests, future, sent, lpc, init_id,
                   close_snapshot, closes_in_row, close_raised, set_on_done,
                   late,
                   eof_outstanding>>

\* the task awaiting in _send_request is cancelled from outside: wait_for
\* cancels the future, CancelledError is no TimeoutError, the id stays
CancelCaller(i) ==
    /\ UNCHANGED notMCP
    /\ caller[i] \in {"drain", "waiting"}
    /\ i # init_id
    /\ caller' = [caller EXCEPT ![i] = "cancelled"]
    /\ future' = [future EXCEPT ![i] =
                    IF caller[i] = "waiting" /\ future[i] = "pending"
                    THEN "cancelled" ELSE future[i]]
    /\ UNCHANGED <<process, read_task, initialized, request_id,
                   pending_requests, sent, lpc, init_id, close_snapshot,
                   closes_in_row, close_raised, set_on_done, late,
                   eof_outstanding>>

\* a line of the child's stdout, by what _read_loop does with it
Line(kind, id) == [kind |-> kind, id |-> id]

NoLine == Line(None, 0)

\* a JSON object with a pending-style id and a result, or an error object
ResponseLines == {Line(k, i) : k \in {"result", "error"}, i \in Ids}

\* a JSON object with an id whose "error" member is not an object
ErrorNotObjectLines == {Line("error_not_object", i) : i \in Ids}

\* whitespace only; text that is not JSON
SkippedLines == {Line("empty", 0), Line("non_json", 0)}

\* a JSON object with no id (a notification), or an id never issued
UnmatchedLines == {Line("no_id", 0), Line("unknown_id", 0)}

\* bytes that are not UTF-8; JSON that is not an object (5, "x", [1], null);
\* a JSON object whose id is an array or an object
RaisingLines ==
    {Line("undecodable", 0), Line("not_object", 0), Line("id_unhashable", 0)}

Lines ==
    ResponseLines \cup ErrorNotObjectLines \cup SkippedLines
        \cup UnmatchedLines \cup RaisingLines

\* a read loop that hands a result to the caller as an error and an error as a
\* result
DeliverSwapped(i, kind) ==
    /\ read_task = "running"
    /\ process # None
    /\ i \in sent
    /\ sent' = sent \ {i}
    /\ late' = late
    /\ pending_requests' = pending_requests \ {i}
    /\ future' = [future EXCEPT ![i] =
                    IF kind = "result" THEN "error" ELSE "result"]
    /\ UNCHANGED <<process, read_task, initialized, request_id, caller, lpc,
                   init_id, close_snapshot, closes_in_row, close_raised,
                   set_on_done, eof_outstanding>>

\* _read_loop handles a line with id i that has a result or an error object
\* (lines 52-64, 70-72)
Deliver(i, kind) ==
    /\ read_task = "running"
    /\ process # None
    /\ i \in sent
    /\ sent' = sent \ {i}
    /\ late' = IF caller[i] \in {"timedout", "timeout"} THEN late \cup {i}
               ELSE late
    /\ IF i \in pending_requests
       THEN /\ pending_requests' = pending_requests \ {i}
            /\ IF FutureDone(future[i])
               THEN \* InvalidStateError, caught by except Exception: break
                    /\ set_on_done' = set_on_done \cup {i}
                    /\ read_task' = "failed"
                    /\ UNCHANGED future
               ELSE /\ future' = [future EXCEPT ![i] = kind]
                    /\ UNCHANGED <<set_on_done, read_task>>
       ELSE UNCHANGED <<pending_requests, future, set_on_done, read_task>>
    /\ UNCHANGED <<process, initialized, request_id, caller, lpc, init_id,
                   close_snapshot, closes_in_row, close_raised,
                   eof_outstanding>>

\* _read_loop reads a response line with id i (lines 52-64, 70-72)
ReadResponse(i, kind) ==
    /\ UNCHANGED notMCP
    /\ Deliver(i, kind)

\* the slot is popped (line 55), then error.get raises AttributeError (line
\* 60) before set_exception runs; except Exception: break (lines 70-72)
DeliverErrorNotObject(i) ==
    /\ read_task = "running"
    /\ process # None
    /\ i \in sent
    /\ sent' = sent \ {i}
    /\ late' = IF caller[i] \in {"timedout", "timeout"} THEN late \cup {i}
               ELSE late
    /\ IF i \in pending_requests
       THEN /\ pending_requests' = pending_requests \ {i}
            /\ read_task' = "failed"
       ELSE UNCHANGED <<pending_requests, read_task>>
    /\ UNCHANGED <<process, initialized, request_id, future, caller, lpc,
                   init_id, close_snapshot, closes_in_row, close_raised,
                   set_on_done, eof_outstanding>>

\* line 49 continue, lines 65-68 continue, or the test of line 54 is false
Skip ==
    /\ read_task = "running"
    /\ process # None
    /\ UNCHANGED mcpVars

\* line.decode() raises UnicodeDecodeError (line 47), response.get raises
\* AttributeError (line 53), or the membership test raises TypeError (line
\* 54); none is a JSONDecodeError, so except Exception: break (lines 70-72)
ReadRaises ==
    /\ read_task = "running"
    /\ process # None
    /\ read_task' = "failed"
    /\ UNCHANGED <<process, initialized, request_id, pending_requests,
                   future, caller, sent, lpc, init_id, close_snapshot,
                   closes_in_row, close_raised, set_on_done, late,
                   eof_outstanding>>

\* one iteration of _read_loop on the line l (lines 41-72)
ReadLine(l) ==
    /\ UNCHANGED <<loopVars, bridgeVars, initVars, subVars, adapterVars, muxVars, plannerVars, actVars, sessVars, reflVars, regVars, histVars>>
    /\ last_line' = l
    /\ CASE l \in ResponseLines -> Deliver(l.id, l.kind)
         [] l \in ErrorNotObjectLines -> DeliverErrorNotObject(l.id)
         [] l \in SkippedLines \cup UnmatchedLines -> Skip
         [] l \in RaisingLines -> ReadRaises

\* the child exits or is killed
ServerCrash ==
    /\ UNCHANGED notMCP
    /\ process = "alive"
    /\ process' = "dead"
    /\ UNCHANGED <<read_task, initialized, request_id, pending_requests,
                   future, caller, sent, lpc, init_id, close_snapshot,
                   closes_in_row, close_raised, set_on_done, late,
                   eof_outstanding>>

\* a request whose caller is still inside _send_request with no response set
Outstanding(i) ==
    /\ caller[i] \in {"drain", "waiting"}
    /\ future[i] = "pending"

\* readline() returns b"": break
ReadEOF ==
    /\ UNCHANGED notMCP
    /\ read_task = "running"
    /\ process = "dead"
    /\ read_task' = "eof"
    /\ eof_outstanding' = {i \in Ids : Outstanding(i)}
    /\ UNCHANGED <<process, initialized, request_id, pending_requests, future,
                   caller, sent, lpc, init_id, close_snapshot, closes_in_row,
                   close_raised, set_on_done, late>>

\* initialize() on a client that is not initialized: spawn, start the read
\* loop, send the initialize request.  The owner calls it on a client that has
\* no process (a new one, or one it has closed).
InitializeStart ==
    /\ UNCHANGED notMCP
    /\ lpc = "idle"
    /\ ~initialized
    /\ process = None
    /\ request_id < MaxReq
    /\ process' = "alive"
    /\ read_task' = "running"
    /\ request_id' = NextRequestId(request_id)
    /\ future' = [future EXCEPT ![NextRequestId(request_id)] = "pending"]
    /\ pending_requests' = pending_requests \cup {NextRequestId(request_id)}
    /\ caller' = [caller EXCEPT ![NextRequestId(request_id)] = "drain"]
    /\ sent' = {NextRequestId(request_id)}
    /\ init_id' = NextRequestId(request_id)
    /\ lpc' = "initializing"
    /\ closes_in_row' = 0
    /\ eof_outstanding' = {}
    /\ UNCHANGED <<initialized, close_snapshot, close_raised, set_on_done, late>>

\* the result member of an initialize response
InitializeResult(capabilities) ==
    [protocolVersion |-> "2024-11-05", capabilities |-> capabilities]

\* what a server can answer: no capabilities, or some
InitializeResults == {InitializeResult("{}"), InitializeResult("{tools}")}

\* the literal of line 110
AlreadyInitialized == InitializeResult("{}")

\* lines 142-155: send the notification, mark initialized
MarkInitialized ==
    /\ lpc = "initializing"
    /\ caller[init_id] = "ok"
    /\ initialized' = TRUE
    /\ init_id' = 0
    /\ lpc' = "idle"
    /\ UNCHANGED <<process, read_task, request_id, pending_requests, future,
                   caller, sent, close_snapshot, closes_in_row, close_raised,
                   set_on_done, late,
                   eof_outstanding>>

\* the initialize request came back: send the notification, mark initialized
InitializeFinish ==
    /\ UNCHANGED notMCP
    /\ MarkInitialized

\* the same with the value: initialize() returns the result of the response
\* (lines 130, 155)
InitializeReturn(r) ==
    /\ UNCHANGED <<loopVars, bridgeVars, wireVars, subVars, adapterVars, muxVars, plannerVars, actVars, sessVars, reflVars, regVars, histVars>>
    /\ MarkInitialized
    /\ init_response' = r
    /\ init_returned' = r

\* initialize() on a client that is initialized (lines 109-110)
InitializeAgain ==
    /\ UNCHANGED <<loopVars, bridgeVars, wireVars, subVars, adapterVars, muxVars, plannerVars, actVars, sessVars, reflVars, regVars, histVars>>
    /\ lpc = "idle"
    /\ initialized
    /\ init_returned' = AlreadyInitialized
    /\ UNCHANGED <<mcpVars, init_response>>

\* the initialize request failed: the exception leaves initialize()
InitializeFail ==
    /\ UNCHANGED notMCP
    /\ lpc = "initializing"
    /\ caller[init_id] \in {"error", "timeout", "cancelled", "write_failed"}
    /\ init_id' = 0
    /\ lpc' = "idle"
    /\ UNCHANGED <<process, read_task, initialized, request_id,
                   pending_requests, future, caller, sent, close_snapshot,
                   closes_in_row, close_raised, set_on_done, late,
                   eof_outstanding>>

\* close() is called: cancel the read task; with a process, close stdin and
\* wait for the exit (CloseFinish); with none, nothing is awaited
CloseStart ==
    /\ UNCHANGED notMCP
    /\ lpc = "idle"
    /\ closes_in_row < MaxCloses
    /\ close_snapshot' = pending_requests
    /\ close_raised' = (close_raised \/ (read_task # None /\ CloseRaises(read_task)))
    /\ IF process = None
       THEN /\ CloseFinalBlock
            /\ UNCHANGED <<request_id, caller, init_id, set_on_done, late,
                   eof_outstanding>>
       ELSE /\ read_task' = IF read_task = "running" THEN "cancelled"
                            ELSE read_task
            /\ lpc' = "closing"
            /\ UNCHANGED <<process, initialized, request_id, pending_requests,
                           future, caller, sent, init_id, closes_in_row,
                           set_on_done, late,
                   eof_outstanding>>

\* the process has exited or was killed: cancel what is pending, clear, reset
CloseFinish ==
    /\ UNCHANGED notMCP
    /\ lpc = "closing"
    /\ CloseFinalBlock
    /\ UNCHANGED <<request_id, caller, init_id, close_snapshot, close_raised,
                   set_on_done, late,
                   eof_outstanding>>

\* lines 211-213: the child outlives the 5 s of wait_for and exits after the
\* wait was cancelled but before close() runs again: kill() finds no process
\* and raises ProcessLookupError, which no handler of close() catches (the
\* except Exception of line 215 guards the try body only); lines 218-226 are
\* not run
CloseKillRaises ==
    /\ UNCHANGED notMCP
    /\ lpc = "closing"
    /\ process = "alive"
    /\ process' = "dead"
    /\ close_raised' = TRUE
    /\ lpc' = "idle"
    /\ UNCHANGED <<read_task, initialized, request_id, pending_requests,
                   future, caller, sent, init_id, close_snapshot,
                   closes_in_row, set_on_done, late, eof_outstanding>>

MCPInit ==
    /\ process = None
    /\ read_task = None
    /\ initialized = FALSE
    /\ request_id = 0
    /\ pending_requests = {}
    /\ future = [i \in Ids |-> None]
    /\ caller = [i \in Ids |-> None]
    /\ sent = {}
    /\ lpc = "idle"
    /\ init_id = 0
    /\ close_snapshot = {}
    /\ closes_in_row = 0
    /\ close_raised = FALSE
    /\ set_on_done = {}
    /\ late = {}
    /\ eof_outstanding = {}
    /\ last_line = NoLine
    /\ init_response = None
    /\ init_returned = None

(***************************************************************************)
(* SubAgentManager (proxi/agents/registry.py)                              *)
(***************************************************************************)
\* an exception as its class and str(e)
Exc(cls, msg) == [cls |-> cls, msg |-> msg]

NoExc == Exc(None, None)

\* what an agent's run() may raise: an Exception with or without a message,
\* a TimeoutError of its own, and CancelledError (a BaseException)
AgentExceptions ==
    { Exc("Exception", "boom"), Exc("Exception", ""),
      Exc("TimeoutError", ""), Exc("CancelledError", "") }

\* one call of agent.run(): how many steps it takes, how it ends ("never":
\* it hangs), and whether a cancellation unwinds it or is swallowed
Behaviours ==
    [work : 0..MaxWork, ends : {"return_ok", "return_fail", "never"},
     exc : {NoExc}, on_cancel : {"unwind", "ignore"}]
    \cup [work : 0..MaxWork, ends : {"raise"}, exc : AgentExceptions,
          on_cancel : {"unwind", "ignore"}]

NoBehaviour == [work |-> 0, ends |-> None, exc |-> NoExc, on_cancel |-> None]

SubAgentResult(success, error) == [success |-> success, error |-> error]

NoResult == SubAgentResult(FALSE, None)

NotFoundResult == SubAgentResult(FALSE, "not found in registry")

TimeoutResult == SubAgentResult(FALSE, "exceeded maximum time")

\* the except clauses of SubAgentManager.run, lines 117 and 133
CaughtAsTimeout(e) == e.cls = "TimeoutError"

CaughtAsException(e) == e.cls \in {"Exception"}

\* SubAgentManager.run up to the await of wait_for (lines 76-104)
ManagerRun ==
    /\ UNCHANGED notSub
    /\ mpc = "idle"
    /\ sub_calls < MaxSubCalls
    /\ sub_calls' = sub_calls + 1
    /\ timer_fired' = FALSE
    /\ elapsed' = 0
    /\ \E found \in BOOLEAN, t \in 1..MaxTime, b \in Behaviours :
         /\ sub_found' = found
         /\ max_time' = t
         /\ IF ~found
            THEN /\ result' = NotFoundResult
                 /\ mpc' = "returned"
                 /\ behaviour' = NoBehaviour
                 /\ agent' = None
                 /\ agent_left' = 0
            ELSE /\ result' = NoResult
                 /\ mpc' = "awaiting"
                 /\ behaviour' = b
                 /\ agent' = "running"
                 /\ agent_left' = b.work

\* the clock advances while the manager waits
Tick ==
    /\ UNCHANGED notSub
    /\ mpc = "awaiting"
    /\ elapsed < max_time
    /\ elapsed' = elapsed + 1
    /\ UNCHANGED <<mpc, sub_found, max_time, behaviour, agent, agent_left,
                   timer_fired, result, sub_calls>>

\* the timeout of wait_for fires: the agent's coroutine is cancelled; one that
\* swallows CancelledError goes on running, and wait_for waits for it
TimerFire ==
    /\ UNCHANGED notSub
    /\ mpc = "awaiting"
    /\ elapsed >= max_time
    /\ ~timer_fired
    /\ agent = "running"
    /\ timer_fired' = TRUE
    /\ agent' = IF behaviour.on_cancel = "unwind" THEN "cancelled" ELSE agent
    /\ UNCHANGED <<mpc, sub_found, max_time, behaviour, agent_left, elapsed,
                   result, sub_calls>>

\* the agent's run() takes a step of its own
AgentStep ==
    /\ UNCHANGED notSub
    /\ agent = "running"
    /\ agent_left > 0
    /\ agent_left' = agent_left - 1
    /\ UNCHANGED <<mpc, sub_found, max_time, behaviour, agent, elapsed,
                   timer_fired, result, sub_calls>>

\* the agent's run() returns or raises
AgentFinish ==
    /\ UNCHANGED notSub
    /\ agent = "running"
    /\ agent_left = 0
    /\ behaviour.ends # "never"
    /\ agent' = IF behaviour.ends = "raise" THEN "raised" ELSE "returned"
    /\ UNCHANGED <<mpc, sub_found, max_time, behaviour, agent_left, elapsed,
                   timer_fired, result, sub_calls>>

\* wait_for comes back once the agent's coroutine is done (lines 106-147)
ManagerResume ==
    /\ UNCHANGED notSub
    /\ mpc = "awaiting"
    /\ agent \in {"returned", "raised", "cancelled"}
    /\ IF agent = "returned"
       THEN /\ result' = SubAgentResult(behaviour.ends = "return_ok",
                            IF behaviour.ends = "return_ok" THEN None
                            ELSE "agent reported failure")
            /\ mpc' = "returned"
       ELSE IF agent = "cancelled" \/ CaughtAsTimeout(behaviour.exc)
       THEN /\ result' = TimeoutResult
            /\ mpc' = "returned"
       ELSE IF CaughtAsException(behaviour.exc)
       THEN /\ result' = SubAgentResult(FALSE, behaviour.exc.msg)
            /\ mpc' = "returned"
       ELSE /\ result' = NoResult
            /\ mpc' = "raised"
    /\ UNCHANGED <<sub_found, max_time, behaviour, agent, agent_left, elapsed,
                   timer_fired, sub_calls>>

\* the caller takes the outcome; the manager is ready for another call
ManagerDone ==
    /\ UNCHANGED notSub
    /\ mpc \in {"returned", "raised"}
    /\ sub_calls < MaxSubCalls
    /\ mpc' = "idle"
    /\ UNCHANGED <<sub_found, max_time, behaviour, agent, agent_left, elapsed,
                   timer_fired, result, sub_calls>>

SubInit ==
    /\ mpc = "idle"
    /\ sub_found = FALSE
    /\ max_time = 1
    /\ behaviour = NoBehaviour
    /\ agent = None
    /\ agent_left = 0
    /\ elapsed = 0
    /\ timer_fired = FALSE
    /\ result = NoResult
    /\ sub_calls = 0

(***************************************************************************)
(* MCPToolAdapter (proxi/mcp/adapters.py)                                  *)
(***************************************************************************)
\* an element of the content array of a tools/call result: whether it is a
\* JSON object, its "type", whether it has a "text" member, whether that is a
\* string, and the string
ContentItem(dict, type, has_text, text_is_str, text) ==
    [dict |-> dict, type |-> type, has_text |-> has_text,
     text_is_str |-> text_is_str, text |-> text]

TextItem(t) == ContentItem(TRUE, "text", TRUE, TRUE, t)

ContentItems ==
    { TextItem("5"),
      TextItem("a"),
      \* {"type": "text"}
      ContentItem(TRUE, "text", FALSE, TRUE, ""),
      \* {"type": "image"}
      ContentItem(TRUE, "image", FALSE, TRUE, ""),
      \* {"type": "resource", "text": "r"}
      ContentItem(TRUE, "resource", TRUE, TRUE, "r"),
      \* {"type": "text", "text": 5}
      ContentItem(TRUE, "text", TRUE, FALSE, "5"),
      \* "raw"
      ContentItem(FALSE, None, FALSE, TRUE, "") }

ContentLists == UNION {[1..n -> ContentItems] : n \in 0..MaxItems}

\* str() of an element
StrItem(it) ==
    IF ~it.dict THEN "'raw'"
    ELSE IF ~it.has_text THEN "{'type': '" \o it.type \o "'}"
    ELSE "{'type': '" \o it.type \o "', 'text': "
            \o (IF it.text_is_str THEN "'" \o it.text \o "'" ELSE it.text)
            \o "}"

RECURSIVE Join(_, _)
\* sep.join(parts)
Join(sep, parts) ==
    IF parts = <<>> THEN ""
    ELSE IF Len(parts) = 1 THEN parts[1]
    ELSE parts[1] \o sep \o Join(sep, Tail(parts))

\* str(content) of a list
StrList(items) ==
    "[" \o Join(", ", [k \in 1..Len(items) |-> StrItem(items[k])]) \o "]"

\* what call_tool returned: the result member of the response.  shape is the
\* kind of its "content": "absent", "list" (items), "string" ("raw"), "null"
CallResult(dict, has_error, error_is_str, error, shape, items) ==
    [dict |-> dict, has_error |-> has_error, error_is_str |-> error_is_str,
     error |-> error, shape |-> shape, items |-> items]

CallResults ==
    {CallResult(TRUE, FALSE, TRUE, None, "list", c) : c \in ContentLists}
    \cup {CallResult(TRUE, FALSE, TRUE, None, sh, <<>>) :
            sh \in {"absent", "string", "null"}}
    \cup {CallResult(TRUE, TRUE, TRUE, "boom", "absent", <<>>),
          CallResult(TRUE, TRUE, TRUE, "boom", "list", <<TextItem("5")>>),
          \* "error": {"code": 1}
          CallResult(TRUE, TRUE, FALSE, None, "absent", <<>>),
          \* "result": null
          CallResult(FALSE, FALSE, TRUE, None, "absent", <<>>)}

\* what call_tool raises: the server's error and the timeout (client.py 58-62,
\* 105), a broken pipe at drain (95), and CancelledError when close() cancels
\* the future the call awaits (219-221)
CallExceptions ==
    { Exc("RuntimeError", "MCP error: m (code: 1)"),
      Exc("RuntimeError", "MCP request timeout: tools/call"),
      Exc("ConnectionResetError", "Connection lost"),
      Exc("CancelledError", "") }

Returns(v) == [kind |-> "return", value |-> v, exc |-> NoExc]

Raises(e) ==
    [kind |-> "raise",
     value |-> CallResult(FALSE, FALSE, TRUE, None, "absent", <<>>),
     exc |-> e]

CallOutcomes ==
    {Returns(v) : v \in CallResults} \cup {Raises(e) : e \in CallExceptions}

NoOutcome == [kind |-> None,
              value |-> CallResult(FALSE, FALSE, TRUE, None, "absent", <<>>),
              exc |-> NoExc]

\* ToolResult(success, output, error) of proxi.tools.base
AdapterToolResult(success, output, error) ==
    [success |-> success, output |-> output, error |-> error]

NoToolResult == AdapterToolResult(FALSE, None, None)

\* execute() returned r / let e out
Returned(r) == [raised |-> NoExc, value |-> r]

Raised(e) == [raised |-> e, value |-> NoToolResult]

\* except Exception as e (lines 69-75)
AdapterCaught(msg) ==
    Returned(AdapterToolResult(FALSE, "", "MCP tool error: " \o msg))

\* the classes `except Exception` catches
IsException(e) == e.cls \in {"RuntimeError", "ConnectionResetError"}

\* the elements whose text goes to text_parts (lines 53-58)
TextParts(items) ==
    LET taken == SelectSeq(items,
                    LAMBDA it : it.dict /\ (it.has_text \/ it.type = "text"))
    IN [k \in 1..Len(taken) |-> taken[k]]

\* MCPToolAdapter.execute on what call_tool did (lines 36-75)
execute(o) ==
    IF o.kind = "raise"
    THEN IF IsException(o.exc) THEN AdapterCaught(o.exc.msg) ELSE Raised(o.exc)
    ELSE LET r == o.value
             parts == TextParts(r.items)
         IN IF ~r.dict
            THEN \* "error" in None: TypeError
                 AdapterCaught("argument of type 'NoneType' is not iterable")
            ELSE IF r.has_error
            THEN IF r.error_is_str
                 THEN Returned(AdapterToolResult(FALSE, "", r.error))
                 ELSE \* ToolResult(error={...}): pydantic ValidationError
                      AdapterCaught("error: Input should be a valid string")
            ELSE IF r.shape = "list" /\ r.items # <<>>
            THEN IF \E k \in 1..Len(parts) : ~parts[k].text_is_str
                 THEN \* "\n".join: TypeError
                      AdapterCaught("expected str instance, int found")
                 ELSE Returned(AdapterToolResult(TRUE,
                        IF parts # <<>>
                        THEN Join("\n", [k \in 1..Len(parts) |-> parts[k].text])
                        ELSE StrList(r.items),
                        None))
            ELSE Returned(AdapterToolResult(TRUE,
                    IF r.shape = "string" THEN "raw"
                    ELSE "Tool executed successfully",
                    None))

\* execute() is called and awaits call_tool, which returns or raises o
AdapterCall(o) ==
    /\ UNCHANGED notAdapter
    /\ apc = "idle"
    /\ apc' = "awaiting"
    /\ call_outcome' = o
    /\ UNCHANGED execute_result

\* call_tool is over: execute() builds its ToolResult, or lets the error out
AdapterReturn ==
    /\ UNCHANGED notAdapter
    /\ apc = "awaiting"
    /\ apc' = "idle"
    /\ execute_result' = execute(call_outcome)
    /\ UNCHANGED call_outcome

AdapterInit ==
    /\ apc = "idle"
    /\ call_outcome = NoOutcome
    /\ execute_result = Returned(NoToolResult)

(***************************************************************************)
(* MCPMultiplexer (proxi/mcp/multiplexer.py)                               *)
(***************************************************************************)
\* self.mcp_servers, by index
Servers == 1..MaxServers

\* how connecting one server ends: adapter.initialize() returns, or the spawn,
\* the initialize request or its timeout raises an Exception
ConnectOutcomes == {"ok", "spawn_failed", "server_error", "timeout"}

\* an adapter list that puts the newest adapter first
AfterConnectPrepends(adps, k, outcome) ==
    IF outcome = "ok" THEN <<k>> \o adps ELSE adps

\* lines 38-49: append the adapter, or log the exception and go on
AfterConnect(adps, k, outcome) ==
    IF outcome = "ok" THEN Append(adps, k) ELSE adps

\* names under which MCPToolAdapter exposes the tools of server k
\* (adapters.py 28: mcp_<name>)
ToolsOf(k) ==
    IF k = 1 THEN {"mcp_add"}
    ELSE IF k = 2 THEN {"mcp_add", "mcp_sub"}
    ELSE {}

ToolNames == {"mcp_add", "mcp_sub", "mcp_none"}

\* MCPAdapter.get_tools: the tools of the server, or [] when list_tools raised
\* (adapters.py 90-101)
GetTools(k) == {ToolsOf(k), {}}

\* the methods class MCPAdapter defines (adapters.py 78-105)
MCPAdapterMethods == {"__init__", "initialize", "get_tools", "close"}

MuxReturn(k) == [kind |-> "return", adapter |-> k, exc |-> NoExc]

MuxRaise(e) == [kind |-> "raise", adapter |-> 0, exc |-> e]

NoMuxResult == [kind |-> None, adapter |-> 0, exc |-> NoExc]

NotFound == Exc("ValueError", "not found in any MCP server")

\* the MCPClient of a server whose initialize raised after the spawn
\* (client.py 107-155): the process is spawned and _read_loop is a task before
\* the request is sent, and nothing on the way out of the failed request stops
\* either; the entry of the request left pending_requests when the error
\* response was read (52-53) or when wait_for timed out (101)
FailedClient == [process |-> TRUE, read_task |-> TRUE, pending |-> 0]

\* MCPClient(...) and adapter.initialize() (multiplexer.py 37-49): the except
\* clause logs, and the client is dropped as initialize left it
AfterClientInitialize(failed, outcome) ==
    IF outcome \in {"server_error", "timeout"}
    THEN Append(failed, FailedClient)
    ELSE failed

\* initialize() is called
MuxInitialize ==
    /\ UNCHANGED <<notMux, mux_failed, mux_closed>>
    /\ mux_pc = "idle"
    /\ mux_inits < MaxMuxInits
    /\ mux_inits' = mux_inits + 1
    /\ mux_pc' = "initialize"
    /\ mux_k' = 1
    /\ connected' = <<>>
    /\ UNCHANGED <<adapters, mux_initialized, call_name, forwarded, mux_result>>

\* one iteration of the for loop of initialize (lines 24-49)
MuxConnect(outcome) ==
    /\ UNCHANGED notMux
    /\ mux_failed' = AfterClientInitialize(mux_failed, outcome)
    /\ UNCHANGED mux_closed
    /\ mux_pc = "initialize"
    /\ mux_k \in Servers
    /\ adapters' = AfterConnect(adapters, mux_k, outcome)
    /\ connected' = IF outcome = "ok" THEN Append(connected, mux_k)
                    ELSE connected
    /\ mux_k' = mux_k + 1
    /\ UNCHANGED <<mux_pc, mux_initialized, mux_inits, call_name, forwarded,
                   mux_result>>

\* lines 51-53
MuxInitializeEnd ==
    /\ UNCHANGED <<notMux, mux_failed, mux_closed>>
    /\ mux_pc = "initialize"
    /\ mux_k \notin Servers
    /\ mux_initialized' = IF adapters # <<>> THEN TRUE ELSE mux_initialized
    /\ mux_pc' = "idle"
    /\ UNCHANGED <<mux_k, adapters, connected, mux_inits, call_name, forwarded,
                   mux_result>>

\* call_tool(name, ...) is called (lines 77-78)
MuxCallTool(name) ==
    /\ UNCHANGED <<notMux, mux_failed, mux_closed>>
    /\ mux_pc = "idle"
    /\ call_name' = name
    /\ forwarded' = <<>>
    /\ IF ~mux_initialized
       THEN /\ mux_result' = MuxRaise(Exc("RuntimeError",
                                          "Multiplexer not initialized"))
            /\ UNCHANGED <<mux_pc, mux_k>>
       ELSE /\ mux_pc' = "call_tool"
            /\ mux_k' = 1
            /\ mux_result' = NoMuxResult
    /\ UNCHANGED <<adapters, mux_initialized, connected, mux_inits>>

\* one iteration of the for loop of call_tool (lines 80-96): get_tools, and
\* when the name is in the list, adapter.call_tool(...).  MCPAdapter defines no
\* call_tool, so the attribute lookup raises AttributeError, which the except
\* clause of line 90 logs; the loop goes on
MuxProbe ==
    /\ UNCHANGED <<notMux, mux_failed, mux_closed>>
    /\ mux_pc = "call_tool"
    /\ mux_k \in 1..Len(adapters)
    /\ \E tools \in GetTools(adapters[mux_k]) :
         IF call_name \in tools
         THEN /\ forwarded' = Append(forwarded, adapters[mux_k])
              /\ IF "call_tool" \in MCPAdapterMethods
                 THEN /\ mux_result' = MuxReturn(adapters[mux_k])
                      /\ mux_pc' = "idle"
                      /\ UNCHANGED mux_k
                 ELSE /\ mux_k' = mux_k + 1
                      /\ UNCHANGED <<mux_pc, mux_result>>
         ELSE /\ mux_k' = mux_k + 1
              /\ UNCHANGED <<mux_pc, mux_result, forwarded>>
    /\ UNCHANGED <<adapters, mux_initialized, connected, mux_inits, call_name>>

\* line 98
MuxCallEnd ==
    /\ UNCHANGED <<notMux, mux_failed, mux_closed>>
    /\ mux_pc = "call_tool"
    /\ mux_k \notin 1..Len(adapters)
    /\ mux_result' = MuxRaise(NotFound)
    /\ mux_pc' = "idle"
    /\ UNCHANGED <<mux_k, adapters, mux_initialized, connected, mux_inits,
                   call_name, forwarded>>

\* close(): adapter.close() for every adapter of self.adapters (lines
\* 100-110), which are the adapters whose initialize returned
MuxClose ==
    /\ UNCHANGED notMux
    /\ mux_pc = "idle"
    /\ mux_closed' = Len(adapters)
    /\ UNCHANGED <<mux_pc, mux_k, adapters, mux_initialized, connected,
                   mux_inits, call_name, forwarded, mux_result, mux_failed>>

MuxInit ==
    /\ mux_pc = "idle"
    /\ mux_k = 1
    /\ adapters = <<>>
    /\ mux_initialized = FALSE
    /\ connected = <<>>
    /\ mux_inits = 0
    /\ call_name = None
    /\ forwarded = <<>>
    /\ mux_result = NoMuxResult
    /\ mux_failed = <<>>
    /\ mux_closed = 0

(***************************************************************************)
(* Planner (proxi/core/planner.py)                                         *)
(***************************************************************************)
\* a ModelResponse: its decision and its usage
ModelResponse(d, u) == [decision |-> d, usage |-> u]

NoResponse == ModelResponse(None, 0)

\* what llm_client.generate returns
Generated == ModelResponse("generated", 9)

\* the responses a stream can carry
StreamResponses == {ModelResponse("streamed_1", 1), ModelResponse("streamed_2", 2)}

\* an item (chunk, resp) of generate_stream; chunk "" and resp None are falsy
StreamItem(chunk, resp) == [chunk |-> chunk, resp |-> resp]

StreamItems ==
    {StreamItem(c, r) : c \in {"", "tok"}, r \in StreamResponses \cup {NoResponse}}

Streams == UNION {[1..n -> StreamItems] : n \in 0..MaxStream}

\* decide returned (decision, usage) / raised
Decided(r) == [kind |-> "return", decision |-> r.decision, usage |-> r.usage]

DecideRaised(what) == [kind |-> "raise", decision |-> what, usage |-> 0]

NoDecided == [kind |-> None, decision |-> None, usage |-> 0]

\* a decide that calls generate whatever the stream yielded
NeedsGenerateAlways(r) == TRUE

\* line 58: if response is None
NeedsGenerate(r) == r = NoResponse

\* decide is called (lines 46-48, 65-66)
PlannerDecide(s, str, how) ==
    /\ UNCHANGED notPlanner
    /\ ppc = "idle"
    /\ streaming' = s
    /\ stream' = IF s THEN str ELSE <<>>
    /\ stream_end' = IF s THEN how ELSE "end"
    /\ response' = NoResponse
    /\ finals' = <<>>
    /\ generate_calls' = 0
    /\ chunks_sent' = 0
    /\ decide_result' = NoDecided
    /\ ppc' = IF s THEN "stream" ELSE "generate"

\* one iteration of the async for (lines 49-57)
PlannerStreamItem ==
    /\ UNCHANGED notPlanner
    /\ ppc = "stream"
    /\ stream # <<>>
    /\ LET item == Head(stream)
       IN /\ chunks_sent' = IF item.chunk # "" THEN chunks_sent + 1
                            ELSE chunks_sent
          /\ response' = IF item.resp # NoResponse THEN item.resp ELSE response
          /\ finals' = IF item.resp # NoResponse THEN Append(finals, item.resp)
                       ELSE finals
    /\ stream' = Tail(stream)
    /\ UNCHANGED <<ppc, streaming, stream_end, generate_calls, decide_result>>

\* the stream is over (lines 58-64), or raises
PlannerStreamEnd ==
    /\ UNCHANGED notPlanner
    /\ ppc = "stream"
    /\ stream = <<>>
    /\ IF stream_end = "raise"
       THEN /\ decide_result' = DecideRaised("stream_raised")
            /\ ppc' = "idle"
       ELSE IF NeedsGenerate(response)
       THEN /\ ppc' = "generate"
            /\ UNCHANGED decide_result
       ELSE /\ decide_result' = Decided(response)
            /\ ppc' = "idle"
    /\ UNCHANGED <<streaming, stream, stream_end, response, finals,
                   generate_calls, chunks_sent>>

\* llm_client.generate returns or raises (lines 59-64, 66-71)
PlannerGenerate(ok) ==
    /\ UNCHANGED notPlanner
    /\ ppc = "generate"
    /\ generate_calls' = generate_calls + 1
    /\ response' = IF ok THEN Generated ELSE response
    /\ decide_result' = IF ok THEN Decided(Generated)
                        ELSE DecideRaised("generate_raised")
    /\ ppc' = "idle"
    /\ UNCHANGED <<streaming, stream, stream_end, finals, chunks_sent>>

PlannerInit ==
    /\ ppc = "idle"
    /\ streaming = FALSE
    /\ stream = <<>>
    /\ stream_end = "end"
    /\ response = NoResponse
    /\ finals = <<>>
    /\ generate_calls = 0
    /\ chunks_sent = 0
    /\ decide_result = NoDecided

(***************************************************************************)
(* AgentLoop._act on a tool call (proxi/core/loop.py)                      *)
(***************************************************************************)
FormTool == "show_collaborative_form"

ActNames == {FormTool, "calc", "missing"}

\* the arguments of a call: a dict that is a valid FormRequest, a dict that is
\* not, or a string that is not JSON (batched path, line 172: it becomes {})
ActArguments == {"valid", "invalid", "not_json"}

ActToolCall(name, args) == [name |-> name, args |-> args]

\* the decisions: one call (single path, arguments are a dict) or several
\* (batched path)
ActDecisions ==
    {<<ActToolCall(n, a)>> : n \in ActNames, a \in {"valid", "invalid"}}
    \cup {<<ActToolCall(n1, a1), ActToolCall(n2, a2)>> :
            n1 \in ActNames, n2 \in ActNames,
            a1 \in ActArguments, a2 \in ActArguments}

\* parse_form_tool_call(args_str) raises ValidationError (lines 489-504)
SchemaError(args) == args # "valid"

\* an _act that sends every tool call to the registry
InterceptedNever(name) == FALSE

\* line 336: if tool_name == "show_collaborative_form"
Intercepted(name) == name = FormTool

\* the dict _act returns for a tool call
ActionResult(tool, success, error) ==
    [kind |-> "return", tool |-> tool, success |-> success, error |-> error]

ActRaised(tool, what) ==
    [kind |-> "raise", tool |-> tool, success |-> FALSE, error |-> what]

\* ToolRegistry.execute(name, ...) as _act sees it (lines 355-385)
RegistryOutcomes(name) ==
    IF name \notin RegisteredTools
    THEN {ActionResult(name, FALSE, "not_found")}
    ELSE {ActionResult(name, TRUE, None),
          ActionResult(name, FALSE, "tool_failed"),
          ActRaised(name, "tool_raised")}

\* a result comes back to _run_loop: the next call of the batch, or the end;
\* an exception ends the turn
ActDone(r) ==
    /\ act_results' = Append(act_results, r)
    /\ IF r.kind = "raise" \/ act_i = Len(act_calls)
       THEN fpc' = "idle" /\ act_i' = act_i
       ELSE fpc' = "act" /\ act_i' = act_i + 1

\* _run_loop has a TOOL_CALL decision and starts on its calls (lines 134-160)
ActStart(calls, bridge) ==
    /\ UNCHANGED notAct
    /\ fpc = "idle"
    /\ act_calls' = calls
    /\ has_bridge' = bridge
    /\ act_i' = 1
    /\ dispatched' = <<>>
    /\ act_results' = <<>>
    /\ fpc' = "act"

\* _act runs one call up to its first await or its return (lines 329-385,
\* 489-515)
ActCall ==
    /\ UNCHANGED notAct
    /\ fpc = "act"
    /\ LET call == act_calls[act_i]
       IN IF Intercepted(call.name)
          THEN /\ UNCHANGED dispatched
               /\ IF SchemaError(call.args)
                  THEN ActDone(ActionResult(FormTool, FALSE,
                                            "schema_validation_error"))
                  ELSE IF ~has_bridge
                  THEN ActDone(ActionResult(FormTool, FALSE,
                                            "form_not_available_headless"))
                  ELSE /\ fpc' = "request_form"
                       /\ UNCHANGED <<act_i, act_results>>
          ELSE /\ dispatched' = Append(dispatched, call.name)
               /\ \E r \in RegistryOutcomes(call.name) : ActDone(r)
    /\ UNCHANGED <<act_calls, has_bridge>>

\* form_bridge.request_form returns the user's answers or a skip, or raises
\* (lines 524-556)
FormRoundTrip(outcome) ==
    /\ UNCHANGED notAct
    /\ fpc = "request_form"
    /\ ActDone(IF outcome = "raises"
               THEN ActRaised(FormTool, "request_form_raised")
               ELSE ActionResult(FormTool, TRUE, None))
    /\ UNCHANGED <<act_calls, has_bridge, dispatched>>

ActInit ==
    /\ fpc = "idle"
    /\ act_calls = <<>>
    /\ act_i = 1
    /\ has_bridge = FALSE
    /\ dispatched = <<>>
    /\ act_results = <<>>

(***************************************************************************)
(* run_bridge: the command loop of one session (proxi/bridge.py)           *)
(***************************************************************************)
\* the commands the reader thread puts on command_queue; eof is the None put
\* when stdin closes
Commands == {"start", "start_empty", "abort", "other", "switch_agent", "eof"}

TaskIds == 1..MaxStarts

NoTask == 0

NoCommand == "none"

\* the place of a command among those read from stdin; the None has none
NoId == 0

\* a bridge that goes on as soon as it has called cancel()
CancelAwaitedNever(tasks, t) == TRUE

\* await agent_task (lines 371-374) returns when the task is done
CancelAwaited(tasks, t) == t \notin tasks

\* stdin_reader puts a command on the queue (call_soon_threadsafe), and the
\* None of the end of stdin last (lines 137-154)
SessionCommand(c) ==
    /\ UNCHANGED notSess
    /\ bpc # "closed"
    /\ ~stdin_eof
    /\ Len(command_queue) < MaxQueue
    /\ c # "eof" => received < MaxCommands
    /\ command_queue' = Append(command_queue, c)
    /\ stdin_eof' = (c = "eof")
    /\ received' = IF c = "eof" THEN received ELSE received + 1
    /\ queue_ids' = Append(queue_ids, IF c = "eof" THEN NoId ELSE received + 1)
    /\ UNCHANGED <<bpc, agent_tasks, agent_task, cancel_sent, held_cmd,
                   bridge_state, started, held_id, processed>>

\* cmd = await command_queue.get() and the branch taken on it, up to the next
\* await (lines 288-346)
BridgeGet ==
    /\ UNCHANGED notSess
    /\ bpc = "get"
    /\ command_queue # <<>>
    /\ Head(command_queue) = "start" => started < MaxStarts
    /\ command_queue' = Tail(command_queue)
    /\ queue_ids' = Tail(queue_ids)
    /\ LET cmd == Head(command_queue)
       IN /\ processed' = IF cmd = "eof" THEN processed
                          ELSE Append(processed, Head(queue_ids))
          /\ CASE cmd = "eof" ->
                 /\ bpc' = "closed"
                 /\ UNCHANGED <<agent_tasks, agent_task, bridge_state, started>>
            [] cmd = "switch_agent" ->
                 /\ bridge_state' = "none"
                 /\ UNCHANGED <<bpc, agent_tasks, agent_task, started>>
            [] cmd = "start" ->
                 /\ agent_task' = started + 1
                 /\ agent_tasks' = agent_tasks \cup {started + 1}
                 /\ started' = started + 1
                 /\ bpc' = "wait"
                 /\ UNCHANGED bridge_state
            [] OTHER ->
                 UNCHANGED <<bpc, agent_tasks, agent_task, bridge_state, started>>
    /\ UNCHANGED <<cancel_sent, held_cmd, stdin_eof, received, held_id>>

\* a run_agent task ends: loop.run or loop.run_continue returns or raises, or,
\* once cancel() was called on it, CancelledError leaves it
AgentTaskEnd(t) ==
    /\ UNCHANGED notSess
    /\ t \in agent_tasks
    /\ agent_tasks' = agent_tasks \ {t}
    /\ UNCHANGED <<bpc, command_queue, agent_task, cancel_sent, held_cmd,
                   bridge_state, started, stdin_eof, received, queue_ids,
                   held_id, processed>>

\* asyncio.wait returns with agent_task done (lines 348-365); the command
\* next_cmd_task had already taken, if any, goes with it
BridgeAgentDone(taken, raised) ==
    /\ UNCHANGED notSess
    /\ bpc = "wait"
    /\ agent_task \notin agent_tasks
    /\ IF taken /\ command_queue # <<>>
       THEN /\ command_queue' = Tail(command_queue)
            /\ queue_ids' = Tail(queue_ids)
       ELSE UNCHANGED <<command_queue, queue_ids>>
    /\ bridge_state' = IF raised THEN bridge_state ELSE "state"
    /\ agent_task' = NoTask
    /\ bpc' = "get"
    /\ UNCHANGED <<agent_tasks, cancel_sent, held_cmd, started, stdin_eof,
                   received, held_id, processed>>

\* asyncio.wait returns with only next_cmd_task done: the run is aborted
\* (lines 366-370); an abort command has then done all it does
BridgeInterrupt ==
    /\ UNCHANGED notSess
    /\ bpc = "wait"
    /\ agent_task \in agent_tasks
    /\ command_queue # <<>>
    /\ held_cmd' = Head(command_queue)
    /\ held_id' = Head(queue_ids)
    /\ command_queue' = Tail(command_queue)
    /\ queue_ids' = Tail(queue_ids)
    /\ processed' = IF Head(command_queue) = "abort"
                    THEN Append(processed, Head(queue_ids))
                    ELSE processed
    /\ cancel_sent' = cancel_sent \cup {agent_task}
    /\ bpc' = "await_cancel"
    /\ UNCHANGED <<agent_tasks, agent_task, bridge_state, started, stdin_eof,
                   received>>

\* await agent_task is over (lines 371-384): CancelledError is swallowed and a
\* command that was not an abort is put back, behind whatever the queue holds
\* by then; any other exception of the task leaves run_bridge
BridgeAfterCancel(raised) ==
    /\ UNCHANGED notSess
    /\ bpc = "await_cancel"
    /\ CancelAwaited(agent_tasks, agent_task)
    /\ IF raised
       THEN /\ bpc' = "closed"
            /\ UNCHANGED <<command_queue, queue_ids>>
       ELSE /\ bpc' = "get"
            /\ IF held_cmd \notin {"eof", "abort"}
               THEN /\ command_queue' = Append(command_queue, held_cmd)
                    /\ queue_ids' = Append(queue_ids, held_id)
               ELSE UNCHANGED <<command_queue, queue_ids>>
    /\ agent_task' = NoTask
    /\ held_cmd' = NoCommand
    /\ held_id' = NoId
    /\ UNCHANGED <<agent_tasks, cancel_sent, bridge_state, started, stdin_eof,
                   received, processed>>

SessInit ==
    /\ bpc = "get"
    /\ command_queue = <<>>
    /\ agent_tasks = {}
    /\ agent_task = NoTask
    /\ cancel_sent = {}
    /\ held_cmd = NoCommand
    /\ bridge_state = "none"
    /\ started = 0
    /\ stdin_eof = FALSE
    /\ received = 0
    /\ queue_ids = <<>>
    /\ held_id = NoId
    /\ processed = <<>>

(***************************************************************************)
(* SubAgentRegistry (proxi/agents/registry.py) and ToolRegistry            *)
(* (proxi/tools/registry.py)                                               *)
(***************************************************************************)
\* a sub-agent or a tool: its name, and which object it is
Capability(name, obj) == [name |-> name, obj |-> obj]

\* what dict.get answers for a name that is no key
NoCapability == Capability(None, 0)

AgentRegNames == {"browser", "summarizer"}

ToolRegNames == {"calc", "read_file"}

RawSpecNames == {FormTool, "calc"}

CapabilityObjs == {1, 2}

\* the position of a key in a dict, 0 when it is no key
KeyIndex(d, name) ==
    IF \E k \in 1..Len(d) : d[k].name = name
    THEN CHOOSE k \in 1..Len(d) : d[k].name = name
    ELSE 0

\* a registry that keeps the first capability registered under a name
DictSetKeepsFirst(d, c) ==
    IF KeyIndex(d, c.name) = 0 THEN Append(d, c) ELSE d

\* d[c.name] = c: a new key goes last, a known key keeps its place
DictSet(d, c) ==
    IF KeyIndex(d, c.name) = 0
    THEN Append(d, c)
    ELSE [d EXCEPT ![KeyIndex(d, c.name)] = c]

\* d.get(name)
DictGet(d, name) ==
    IF KeyIndex(d, name) = 0 THEN NoCapability ELSE d[KeyIndex(d, name)]

\* SubAgentRegistry.to_specs: one SubAgentSpec per value of the dict
AgentSpecs(d) == [k \in 1..Len(d) |-> d[k].name]

\* ToolRegistry.to_specs: one ToolSpec per value of the dict, then the raw specs
ToolSpecs(d, raw) == [k \in 1..Len(d) |-> d[k].name] \o raw

RegCalls == Len(agents_registered) + Len(tools_registered) + Len(raw_specs)

\* SubAgentRegistry.register(agent)
RegisterAgent(c) ==
    /\ UNCHANGED notReg
    /\ RegCalls < MaxRegs
    /\ reg_agents' = DictSet(reg_agents, c)
    /\ agents_registered' = Append(agents_registered, c)
    /\ UNCHANGED <<reg_tools, raw_specs, tools_registered>>

\* ToolRegistry.register(tool)
RegisterTool(c) ==
    /\ UNCHANGED notReg
    /\ RegCalls < MaxRegs
    /\ reg_tools' = DictSet(reg_tools, c)
    /\ tools_registered' = Append(tools_registered, c)
    /\ UNCHANGED <<reg_agents, raw_specs, agents_registered>>

\* ToolRegistry.register_raw_spec(spec)
RegisterRawSpec(name) ==
    /\ UNCHANGED notReg
    /\ RegCalls < MaxRegs
    /\ raw_specs' = Append(raw_specs, name)
    /\ UNCHANGED <<reg_agents, reg_tools, agents_registered, tools_registered>>

RegInit ==
    /\ reg_agents = <<>>
    /\ reg_tools = <<>>
    /\ raw_specs = <<>>
    /\ agents_registered = <<>>
    /\ tools_registered = <<>>

(***************************************************************************)
(* AgentState.add_message and the transcript file (proxi/core/state.py)    *)
(***************************************************************************)
\* the messages the engine adds: user, assistant with tool_calls, tool, and
\* assistant with text
EngineMessages ==
    {UserMessage,
     AssistantToolCalls(<<ToolCall("a", "calc")>>),
     Message("tool", TextContent("output"), "calc", "a", <<>>),
     Message("assistant", TextContent("hi"), None, None, <<>>)}

\* how the write to history.jsonl goes: the line is written, or mkdir, open or
\* write raises (write after a part of the line is in the file)
PersistOutcomes == {"written", "mkdir_raises", "open_raises", "write_raises"}

\* lines 112-117: only user and assistant messages are persisted, and only
\* with a workspace that has a history_path
Persisted(m, workspace) == workspace /\ m.role \in {"user", "assistant"}

\* a persistence whose errors leave add_message
PersistRaisesUncaught(outcome) == outcome # "written"

\* _append_history_jsonl: except Exception: return (lines 163-172)
PersistRaises(outcome) == FALSE

\* what the file holds after _append_history_jsonl(m)
AppendLine(file, m, outcome) ==
    CASE outcome = "written" -> Append(file, [line |-> "whole", role |-> m.role])
      [] outcome = "write_raises" -> Append(file, [line |-> "part", role |-> m.role])
      [] OTHER -> file

\* AgentState.add_message(message) (lines 106-117)
AddMessage(m, workspace, outcome) ==
    /\ UNCHANGED notHist
    /\ Len(state_history) < MaxMessages
    /\ state_history' = Append(state_history, m)
    /\ IF Persisted(m, workspace)
       THEN /\ transcript' = AppendLine(transcript, m, outcome)
            /\ add_ended' = IF PersistRaises(outcome) THEN "raised" ELSE "returned"
       ELSE /\ UNCHANGED transcript
            /\ add_ended' = "returned"

HistInit ==
    /\ state_history = <<>>
    /\ transcript = <<>>
    /\ add_ended = None

(***************************************************************************)
(* Specifications                                                          *)
(***************************************************************************)
Init ==
    LoopInit /\ MCPInit /\ SubInit /\ AdapterInit /\ MuxInit /\ PlannerInit
        /\ ActInit /\ SessInit /\ ReflInit /\ RegInit /\ HistInit

Next ==
    \/ Run
    \/ RunContinue
    \/ LoopStep

Spec == Init /\ [][Next]_vars

\* every awaited call of a turn comes back (returns or raises)
SpecFair == Spec /\ WF_vars(LoopStep)

\* the engine driven by run_bridge: start commands, and commands that arrive
\* while a run is in flight
BridgeNext ==
    \/ Run
    \/ RunContinue
    \/ StartTurn
    \/ LoopExit
    \/ DecideReturn
    \/ DecideRaise
    \/ ActTool
    \/ ActOther
    \/ Reflect
    \/ Finally
    \/ Abort

SpecBridge == Init /\ [][BridgeNext]_vars

MCPNext ==
    \/ SendRequest
    \/ \E i \in Ids : DrainOk(i)
    \/ \E i \in Ids : DrainFail(i)
    \/ \E i \in Ids : Timeout(i)
    \/ \E i \in Ids : TimeoutHandler(i)
    \/ \E i \in Ids : CallerResume(i)
    \/ \E i \in Ids : CancelCaller(i)
    \/ \E i \in Ids, kind \in {"result", "error"} : ReadResponse(i, kind)
    \/ ServerCrash
    \/ ReadEOF
    \/ InitializeStart
    \/ InitializeFinish
    \/ InitializeFail
    \/ CloseStart
    \/ CloseFinish
    \/ CloseKillRaises

\* a client and a manager on their own: the engine is constructed, never run
ComponentInit ==
    LoopUnused /\ MCPInit /\ SubInit /\ AdapterInit /\ MuxInit /\ PlannerInit
        /\ ActInit /\ SessInit /\ ReflInit /\ RegInit /\ HistInit

SpecMCP == ComponentInit /\ [][MCPNext]_vars

\* the client with every kind of line the child can write to its stdout
WireNext ==
    \/ SendRequest
    \/ \E i \in Ids : DrainOk(i)
    \/ \E i \in Ids : DrainFail(i)
    \/ \E i \in Ids : Timeout(i)
    \/ \E i \in Ids : TimeoutHandler(i)
    \/ \E i \in Ids : CallerResume(i)
    \/ \E i \in Ids : CancelCaller(i)
    \/ \E l \in Lines : ReadLine(l)
    \/ ServerCrash
    \/ ReadEOF
    \/ InitializeStart
    \/ InitializeFinish
    \/ InitializeFail
    \/ CloseStart
    \/ CloseFinish
    \/ CloseKillRaises

SpecWire == ComponentInit /\ [][WireNext]_vars

\* the client with the values initialize() returns
InitializeNext ==
    \/ SendRequest
    \/ \E i \in Ids : DrainOk(i)
    \/ \E i \in Ids : DrainFail(i)
    \/ \E i \in Ids : Timeout(i)
    \/ \E i \in Ids : TimeoutHandler(i)
    \/ \E i \in Ids : CallerResume(i)
    \/ \E i \in Ids : CancelCaller(i)
    \/ \E i \in Ids, kind \in {"result", "error"} : ReadResponse(i, kind)
    \/ ServerCrash
    \/ ReadEOF
    \/ InitializeStart
    \/ \E r \in InitializeResults : InitializeReturn(r)
    \/ InitializeAgain
    \/ InitializeFail
    \/ CloseStart
    \/ CloseFinish
    \/ CloseKillRaises

SpecInitialize == ComponentInit /\ [][InitializeNext]_vars

AdapterNext ==
    \/ \E o \in CallOutcomes : AdapterCall(o)
    \/ AdapterReturn

SpecAdapter == ComponentInit /\ [][AdapterNext]_vars

MuxNext ==
    \/ MuxInitialize
    \/ \E outcome \in ConnectOutcomes : MuxConnect(outcome)
    \/ MuxInitializeEnd
    \/ \E name \in ToolNames : MuxCallTool(name)
    \/ MuxProbe
    \/ MuxCallEnd

SpecMux == ComponentInit /\ [][MuxNext]_vars

\* the multiplexer from initialize() to close()
MuxCloseNext ==
    \/ MuxInitialize
    \/ \E outcome \in ConnectOutcomes : MuxConnect(outcome)
    \/ MuxInitializeEnd
    \/ MuxClose

SpecMuxClose == ComponentInit /\ [][MuxCloseNext]_vars

PlannerNext ==
    \/ \E s \in BOOLEAN, str \in Streams, how \in {"end", "raise"} :
            PlannerDecide(s, str, how)
    \/ PlannerStreamItem
    \/ PlannerStreamEnd
    \/ \E ok \in BOOLEAN : PlannerGenerate(ok)

SpecPlanner == ComponentInit /\ [][PlannerNext]_vars

ActNext ==
    \/ \E calls \in ActDecisions, bridge \in BOOLEAN : ActStart(calls, bridge)
    \/ ActCall
    \/ \E outcome \in {"answered", "skipped", "raises"} : FormRoundTrip(outcome)

SpecAct == ComponentInit /\ [][ActNext]_vars

\* the engine built with reflection enabled or disabled
ReflectionInit ==
    /\ LoopInit /\ MCPInit /\ SubInit /\ AdapterInit /\ MuxInit /\ PlannerInit
    /\ ActInit /\ SessInit /\ RegInit /\ HistInit
    /\ enable_reflection \in BOOLEAN
    /\ reflections = <<>>

SpecReflection == ReflectionInit /\ [][Next]_vars

RegNext ==
    \/ \E n \in AgentRegNames, o \in CapabilityObjs : RegisterAgent(Capability(n, o))
    \/ \E n \in ToolRegNames, o \in CapabilityObjs : RegisterTool(Capability(n, o))
    \/ \E n \in RawSpecNames : RegisterRawSpec(n)

SpecReg == ComponentInit /\ [][RegNext]_vars

HistNext ==
    \E m \in EngineMessages, workspace \in BOOLEAN, outcome \in PersistOutcomes :
        AddMessage(m, workspace, outcome)

SpecHist == ComponentInit /\ [][HistNext]_vars

SessNext ==
    \/ \E c \in Commands : SessionCommand(c)
    \/ BridgeGet
    \/ \E t \in TaskIds : AgentTaskEnd(t)
    \/ \E taken \in BOOLEAN, raised \in BOOLEAN : BridgeAgentDone(taken, raised)
    \/ BridgeInterrupt
    \/ \E raised \in BOOLEAN : BridgeAfterCancel(raised)

SpecSess == ComponentInit /\ [][SessNext]_vars

\* the event loop runs the bridge whenever it can go on, and every agent task
\* ends, by itself or cancelled; nothing makes the reader put commands
SpecSessFair ==
    /\ SpecSess
    /\ WF_vars(BridgeGet)
    /\ WF_vars(\E taken \in BOOLEAN, raised \in BOOLEAN : BridgeAgentDone(taken, raised))
    /\ WF_vars(BridgeInterrupt)
    /\ WF_vars(\E raised \in BOOLEAN : BridgeAfterCancel(raised))
    /\ \A t \in TaskIds : WF_vars(AgentTaskEnd(t))

\* the event loop runs every task that can run and fires every timer; it does
\* not make users call the client, nor the child answer or exit
SpecMCPFair ==
    /\ SpecMCP
    /\ \A i \in Ids : WF_vars(DrainOk(i) \/ DrainFail(i))
    /\ \A i \in Ids : WF_vars(Timeout(i))
    /\ \A i \in Ids : WF_vars(TimeoutHandler(i))
    /\ \A i \in Ids : WF_vars(CallerResume(i))
    /\ WF_vars(ReadEOF)
    /\ WF_vars(InitializeFinish \/ InitializeFail)
    /\ WF_vars(CloseFinish \/ CloseKillRaises)

SubNext ==
    \/ ManagerRun
    \/ Tick
    \/ TimerFire
    \/ AgentStep
    \/ AgentFinish
    \/ ManagerResume
    \/ ManagerDone

SpecSub == ComponentInit /\ [][SubNext]_vars

\* time passes, timers fire and the manager's task runs when it can; nothing
\* makes an agent's run() take its next step
SpecSubFair ==
    /\ SpecSub
    /\ WF_vars(Tick)
    /\ WF_vars(TimerFire)
    /\ WF_vars(ManagerResume)

(***************************************************************************)
(* Claims about the Turn Execution Engine                                  *)
(***************************************************************************)
\* the last index of the run of tool-role messages that starts right after h[i]
RECURSIVE ToolRunEnd(_, _)
ToolRunEnd(h, i) ==
    IF i < Len(h) /\ h[i + 1].role = "tool" THEN ToolRunEnd(h, i + 1) ELSE i

DeclaredIds(m) == {m.tool_calls[k].id : k \in 1..Len(m.tool_calls)}

\* every assistant message with tool_calls is followed by exactly one tool
\* message per declared id, and by no tool message with another id
Paired(h) ==
    \A i \in 1..Len(h) :
        h[i].tool_calls # <<>> =>
            LET j == ToolRunEnd(h, i)
            IN /\ \A id \in DeclaredIds(h[i]) :
                    Cardinality({k \in (i + 1)..j : h[k].tool_call_id = id}) = 1
               /\ \A k \in (i + 1)..j : h[k].tool_call_id \in DeclaredIds(h[i])

\* C1: whenever the Planner's decide is about to be called, every assistant
\* message with tool_calls already in history is answered by exactly one tool
\* message per declared call id (whatever the tools did: succeed, fail, raise).
C1_ToolPairing == pc = "decide" => Paired(history)

\* C2: for every max_turns = N >= 1 and every sequence of decisions and action
\* outcomes, a started run returns, and whenever it has returned
\* current_turn <= N and status is COMPLETED or FAILED.
C2_BoundedTermination ==
    /\ [](pc = "returned" =>
            current_turn <= max_turns /\ status \in {"COMPLETED", "FAILED"})
    /\ (pc \notin {"idle", "returned"}) ~> (pc = "returned")

\* a run that used its whole budget and whose last turn raised has returned
C2_Witness ==
    /\ pc = "returned"
    /\ max_turns = MaxTurnsBound
    /\ current_turn = max_turns
    /\ status = "FAILED"
    /\ turns[Len(turns)].status = "ERROR"

LastTurn == turns[Len(turns)]

LastMessage == history[Len(history)]

\* the run in progress (or just returned) has decided RESPOND on its last turn
RespondedNow ==
    /\ turns # <<>>
    /\ LastTurn.run = runs
    /\ LastTurn.decision.type = "respond"

\* C11: after a RESPOND decision on turn k the same run makes no further turn
\* (no further Decide call); when the run has returned, turn k is COMPLETED,
\* status is COMPLETED, current_turn = k and the last message of history is
\* the assistant message with the decision's content; with k = 1 the history
\* is exactly [user, assistant(content)].
C11_RespondFinal ==
    /\ \A j \in 1..(Len(turns) - 1) :
          turns[j].decision.type = "respond" => turns[j + 1].run > turns[j].run
    /\ (pc = "returned" /\ RespondedNow) =>
          /\ status = "COMPLETED"
          /\ LastTurn.status = "COMPLETED"
          /\ current_turn = LastTurn.turn_number
          /\ LastMessage.role = "assistant"
          /\ LastMessage.tool_calls = <<>>
          /\ LastMessage.content.kind = "text"
          /\ LastMessage.content.text = LastTurn.decision.content
          /\ LastTurn.turn_number = 1 => Len(history) = 2 /\ history[1] = UserMessage

\* a run whose planner answered RESPOND "hi" on turn 1 has returned
C11_Witness ==
    /\ pc = "returned"
    /\ RespondedNow
    /\ LastTurn.turn_number = 1
    /\ LastTurn.decision.content = "hi"
    /\ max_turns = MaxTurnsBound

\* the tool message that answers the k-th call of the turn being reflected on
AnswerOf(k) == history[Len(history) - Len(decision.calls) + k]

\* a TOOL_CALL turn whose calls have all come back
ToolsAnswered == pc = "reflect" /\ decision.type = "tool_call"

UnregisteredCalls ==
    {k \in 1..Len(decision.calls) : decision.calls[k].name \notin RegisteredTools}

\* the turn of the run in progress is over and was a completed TOOL_CALL turn
ToolTurnOver ==
    /\ pc = "loop"
    /\ turns # <<>>
    /\ LastTurn.run = runs
    /\ LastTurn.decision.type = "tool_call"
    /\ LastTurn.status = "COMPLETED"

TurnStatuses ==
    {"PENDING", "REASONING", "DECIDING", "ACTING", "OBSERVING", "REFLECTING",
     "COMPLETED", "ERROR"}

\* the last turn of the run in progress ended in ERROR
ErrorNow ==
    /\ turns # <<>>
    /\ LastTurn.run = runs
    /\ LastTurn.status = "ERROR"

\* C13: a step of turn k that raises (the step from decide or act that goes
\* straight back to the loop head or to the finally block) marks the turn
\* ERROR with the error text; if k < max_turns status stays RUNNING and turn
\* k + 1 is started, if k >= max_turns status becomes FAILED and the run makes
\* no further turn.  should_retry is true exactly for an ERROR turn with
\* current_turn < max_turns.
C13_ExceptionPolicy ==
    /\ [](\A st \in TurnStatuses, k \in 0..(MaxTurnsBound + 1), n \in 1..MaxTurnsBound :
            should_retry(st, k, n) <=> (st = "ERROR" /\ k < n))
    /\ [][(pc \in {"decide", "act"} /\ pc' \in {"loop", "finally"}) =>
            /\ LastTurn'.status = "ERROR"
            /\ LastTurn'.error \notin {None, ""}
            /\ LastTurn'.turn_number = current_turn
            /\ current_turn' = current_turn]_vars
    /\ [](ErrorNow =>
            IF LastTurn.turn_number < max_turns
            THEN status = "RUNNING" /\ pc = "loop"
            ELSE status = "FAILED" /\ pc \in {"finally", "returned"})
    /\ [](\A j \in 1..(Len(turns) - 1) :
            turns[j].status = "ERROR" =>
               IF turns[j].turn_number < max_turns
               THEN /\ turns[j + 1].run = turns[j].run
                    /\ turns[j + 1].turn_number = turns[j].turn_number + 1
               ELSE turns[j + 1].run > turns[j].run)
    /\ (ErrorNow /\ current_turn < max_turns) ~> (pc = "decide")

\* turn 1 raised and was retried, turn 2 raised at the budget: FAILED
C13_Witness ==
    /\ pc = "returned"
    /\ max_turns = 2
    /\ Len(turns) = 2
    /\ turns[1].status = "ERROR"
    /\ turns[1].error = "decide_raised"
    /\ turns[2].status = "ERROR"
    /\ turns[2].error = "tool_raised"
    /\ status = "FAILED"

\* C14: when the bridge has aborted a run, the AgentState the next start
\* command continues from is the one the bridge held before the aborted
\* start: no user message of the aborted start, no assistant tool_calls
\* message without its tool responses, no extra TurnState, current_turn and
\* status unchanged.
C14_AbortDiscards == aborted => AgentStateFields = start_state

\* C21: ToolRegistry.execute never lets a tool's exception cross the registry
\* boundary: a registered tool whose execute raises gives a failed tool result,
\* never a turn in status ERROR.
C21_RegistryCaptures ==
    \A k \in 1..Len(turns) :
        ~(turns[k].status = "ERROR" /\ turns[k].error = "tool_raised")

\* the message at i declares tool calls and the messages after it are their
\* tool responses, one per call and in the order of the declaration, followed
\* by no further tool message
AnsweredInOrder(h, i) ==
    LET n == Len(h[i].tool_calls)
    IN /\ i + n <= Len(h)
       /\ \A k \in 1..n :
            /\ h[i + k].role = "tool"
            /\ h[i + k].tool_call_id = h[i].tool_calls[k].id
            /\ h[i + k].name = h[i].tool_calls[k].name
       /\ i + n < Len(h) => h[i + n + 1].role # "tool"

\* C28: messages are appended in causal order: after the user message, a tool
\* turn appends one assistant message with the tool_calls, then the tool
\* responses in the order of the declared calls, then comes the next assistant
\* message; for a batch of N > 1 calls all N responses are in history before
\* decide is called again.
C28_CausalOrder ==
    /\ history # <<>> => history[1].role = "user"
    /\ pc = "decide" =>
        \A i \in 1..Len(history) :
            history[i].tool_calls # <<>> => AnsweredInOrder(history, i)

\* the turns made by the r-th call of run / run_continue: one decide call each
TurnsOfRun(r) == {k \in 1..Len(turns) : turns[k].run = r}

\* C29: decide is called exactly once per turn: every call of decide is made
\* for a turn just begun, and once it has returned or raised no second call is
\* made for that turn; a turn that failed is not acted on again with its
\* decision: the next thing done is a fresh decide on the next turn; and the
\* decide calls of one run are never more than max_turns.
C29_OneDecidePerTurn ==
    /\ [](\A r \in 1..MaxRuns : Cardinality(TurnsOfRun(r)) <= max_turns)
    /\ [](pc = "decide" => turns[Len(turns)].status = "DECIDING")
    /\ [](pc = "act" => /\ decision # NoDecision
                        /\ turns[Len(turns)].decision = decision
                        /\ turns[Len(turns)].status = "ACTING")
    /\ [][/\ (pc' = "decide" /\ pc # "decide") =>
                /\ Len(turns') = Len(turns) + 1
                /\ current_turn' = current_turn + 1
          /\ pc = "decide" => pc' # "decide"
          /\ (pc \in {"decide", "act"} /\ turns'[Len(turns)].status = "ERROR") =>
                /\ decision' = NoDecision
                /\ pc' \in {"loop", "finally"}]_vars

\* a run of two turns: the first failed, the second got a decision of its own
C29_Witness ==
    /\ runs = 1
    /\ Len(turns) = 2
    /\ turns[1].status = "ERROR"
    /\ turns[1].decision # NoDecision
    /\ pc = "act"
    /\ turns[2].decision = decision
    /\ turns[2].decision # turns[1].decision

\* what the claim compares between two runs: history, session status,
\* current_turn, the per-turn statuses, and where the loop goes on
ControlState ==
    [history |-> history, status |-> status, current_turn |-> current_turn,
     statuses |-> [k \in 1..Len(turns) |-> turns[k].status], pc |-> pc]

\* the same fields after lines 258-274 with the given reflector
ControlAfterReflect(enabled) ==
    LET e == ReflectEffect(enabled)
    IN [history |-> e.history, status |-> e.status,
        current_turn |-> current_turn,
        statuses |-> [k \in 1..Len(e.turns) |-> e.turns[k].status], pc |-> e.pc]

\* C30: the reflector has no effect on control flow: the reflect step is the
\* only one that uses the reflector, and from every state a run reaches, with
\* reflection enabled or disabled, it leaves the history, the session status,
\* current_turn, the turn statuses and the continuation that the engine with
\* reflection disabled has after it; every other step leaves the reflector's
\* state alone.
C30_ReflectorNoControl ==
    [][/\ pc = "reflect" =>
            /\ ControlState' = ControlAfterReflect(FALSE)
            /\ ControlAfterReflect(TRUE) = ControlAfterReflect(FALSE)
       /\ pc # "reflect" => UNCHANGED reflVars
       /\ enable_reflection' = enable_reflection]_vars

\* a run with reflection enabled went through the reflect step of a tool turn
\* and of the RESPOND turn and has returned
C30_Witness ==
    /\ enable_reflection
    /\ pc = "returned"
    /\ status = "COMPLETED"
    /\ Len(turns) = 2
    /\ turns[1].status = "COMPLETED"
    /\ turns[1].decision.type = "tool_call"
    /\ turns[2].status = "COMPLETED"

\* the statuses _run_loop ends a run with
TerminalStatuses == {"COMPLETED", "FAILED"}

\* C26: within one run or run_continue call the status only moves forward,
\* from RUNNING to COMPLETED or FAILED, never from a terminal status back to
\* RUNNING and never between COMPLETED and FAILED; the only step from a terminal
\* status to RUNNING is the reset at the start of run_continue; and
\* current_turn <= max_turns in every reachable state.
C26_StatusForward ==
    /\ [](current_turn <= max_turns)
    /\ [][/\ status = "RUNNING" => status' \in {"RUNNING"} \cup TerminalStatuses
          /\ (status \in TerminalStatuses /\ status' # status) =>
                /\ status' = "RUNNING"
                /\ pc = "returned" /\ pc' = "loop"
                /\ runs' = runs + 1
                /\ history' = add_message(history, UserMessage)
          /\ (runs' = runs /\ runs > 0 /\ status' # status) =>
                status = "RUNNING" /\ status' \in TerminalStatuses]_vars

\* a run that ended COMPLETED was continued, used its last turn and ended FAILED
C26_Witness ==
    /\ runs = 2
    /\ pc = "returned"
    /\ start_state.status = "COMPLETED"
    /\ status = "FAILED"
    /\ current_turn = max_turns


(***************************************************************************)
(* Claims about the Protocol Client                                        *)
(***************************************************************************)
CallerFailed(i) == caller[i] \in {"timeout", "cancelled", "write_failed", "error"}

\* C3: under any interleaving of the read loop, the timeout and close(), no
\* path calls set_result or set_exception on a response slot that is already
\* resolved or cancelled.
C3_NoDoubleResolution == set_on_done = {}

\* C4: every request id inserted into pending_requests is eventually removed
\* from it, in every execution (response, server error, timeout, failed write,
\* cancelled caller, close).
C4_NoLeak == \A i \in Ids : (i \in pending_requests) ~> (i \notin pending_requests)

\* C5: a response read after its request timed out is ignored: handling it
\* raises nothing inside the read loop, which therefore keeps running, also
\* when the line is read before the timed-out caller has popped its id.
C5_LateResponseIgnored == \A i \in late : i \notin set_on_done

\* C6: when the child dies the read loop ends, and every request that was
\* outstanding when the read loop read EOF eventually completes with a failure.
C6_CrashBoundedWait ==
    /\ (process = "dead" /\ read_task = "running") ~> (read_task # "running")
    /\ \A i \in Ids : (i \in eof_outstanding) ~> CallerFailed(i)

\* a request that was outstanding at EOF has failed by its own timeout
C6_Witness ==
    \E i \in eof_outstanding : caller[i] = "timeout" /\ read_task = "eof"

\* C7: no call of close() raises, and once close() has returned (a first and
\* a second time in a row) pending_requests is empty, process and read task
\* are None and initialized is false.
C7_IdempotentClose ==
    /\ ~close_raised
    /\ (closes_in_row >= 1 /\ lpc = "idle") =>
          /\ pending_requests = {}
          /\ process = None
          /\ read_task = None
          /\ ~initialized

\* C8: when close() has returned, every request that was pending when it was
\* called is failed by cancellation of its slot (its caller is not left
\* waiting on an unresolved slot), and the pending map is empty.
C8_ClosePendingFailed ==
    (closes_in_row >= 1 /\ lpc = "idle") =>
        /\ pending_requests = {}
        /\ \A i \in close_snapshot :
              /\ future[i] = "cancelled"
              /\ caller[i] \notin {"ok", "error"}

\* close() has returned having found a request waiting for its response
C8_Witness ==
    /\ closes_in_row = 1
    /\ lpc = "idle"
    /\ \E i \in close_snapshot : caller[i] = "waiting" /\ future[i] = "cancelled"

\* C15: the ids one client issues are strictly increasing, across concurrent
\* requests and across close() followed by a new initialize(): every newly
\* registered id is the new value of the counter, is larger than every id
\* issued before, and is not in the pending map when it is issued.
C15_IdsIncrease ==
    /\ [](pending_requests \subseteq 1..request_id)
    /\ [][/\ request_id' >= request_id
          /\ \A i \in pending_requests' \ pending_requests :
                (i = request_id' /\ i > request_id)
          /\ (request_id' # request_id => request_id' \in pending_requests')]_vars

\* a second initialize(), after a close(), has issued its request
C15_Witness ==
    /\ lpc = "initializing"
    /\ init_id = 2
    /\ 2 \in pending_requests
    /\ caller[1] # None


\* C16: with several requests outstanding, the read loop handling a response
\* line with id i (a result, or an error object) resolves the future of request
\* i, and only that one, with what the line carries, whatever the order the
\* lines come in: slot i leaves the pending map, every other slot and future is
\* as before and the read loop keeps running; the caller of i then gets that
\* result or that error.  A line with no id, with an id never issued, or with
\* the id of a request no longer in the map changes no slot and no future.
C16_Correlation ==
    /\ [][\A l \in ResponseLines \cup UnmatchedLines :
            ReadLine(l) =>
                IF l \in ResponseLines /\ l.id \in pending_requests
                THEN future[l.id] = "pending" =>
                        /\ future' = [future EXCEPT ![l.id] = l.kind]
                        /\ pending_requests' = pending_requests \ {l.id}
                        /\ read_task' = read_task
                        /\ caller' = caller
                ELSE UNCHANGED <<pending_requests, future, read_task,
                                 caller>>]_vars
    /\ [][\A i \in Ids :
            (caller[i] = "waiting" /\ caller'[i] \in {"ok", "error"}) =>
                /\ i \notin pending_requests
                /\ future[i] = (IF caller'[i] = "ok" THEN "result"
                                ELSE "error")]_vars

\* both requests are outstanding and the answer to the second is read first
C16_Witness ==
    /\ last_line = Line("result", 2)
    /\ future[2] = "result"
    /\ future[1] = "pending"
    /\ pending_requests = {1}
    /\ caller[1] = "waiting"
    /\ caller[2] = "waiting"
    /\ read_task = "running"

\* text that is not JSON, and JSON that is not an object (5, "x", [1, 2])
MalformedLines == {Line("non_json", 0), Line("not_object", 0)}

\* C17: a malformed line on the child's stdout (text that is not JSON, or JSON
\* that is not a response object, such as a bare number, string or array) is
\* not fatal: when the read loop has handled it, the loop has not ended.
C17_MalformedIgnored == last_line \in MalformedLines => read_task # "failed"

\* C19: once the server process has died and the read loop has ended on EOF, a
\* request fails fast: no step taken in that state registers a pending slot.
C19_FailFastAfterDeath ==
    [][(process = "dead" /\ read_task = "eof") =>
            pending_requests' \subseteq pending_requests]_vars

\* C18: initialize is idempotent: on a client whose initialize() succeeded, a
\* further call returns what the first call returned, the capabilities of the
\* server's initialize response.
C18_InitializeIdempotent == initialized => init_returned = init_response

(***************************************************************************)
(* Claims about the Sub-Agent Manager                                      *)
(***************************************************************************)
\* C9: SubAgentManager.run never raises; for an unknown agent, a timeout and
\* an agent whose run() raised, it returns success = false with a non-empty
\* error: the exception text, or the 'exceeded maximum time' text on timeout.
C9_NeverRaises ==
    /\ mpc # "raised"
    /\ (mpc = "returned" /\ ~sub_found) =>
          result.success = FALSE /\ result.error \notin {None, ""}
    /\ (mpc = "returned" /\ sub_found /\ agent = "cancelled") =>
          result = TimeoutResult
    /\ (mpc = "returned" /\ sub_found /\ agent = "raised") =>
          /\ result.success = FALSE
          /\ result.error \notin {None, ""}
          /\ result.error \in {behaviour.exc.msg, TimeoutResult.error}

\* C10: once the timeout of a call has fired the manager returns, whatever
\* the agent does from then on (even if its run() takes no further step).
C10_ReturnsAfterDeadline ==
    (mpc = "awaiting" /\ timer_fired) ~> (mpc \in {"returned", "raised"})

(***************************************************************************)
(* Claims about the Capability Adapter                                     *)
(***************************************************************************)
\* execute() has been called and is over
Executed == apc = "idle" /\ call_outcome # NoOutcome

\* the texts of the text items of a content array, one after the other
TextsOf(items) ==
    LET texts == SelectSeq(items, LAMBDA it : it.dict /\ it.type = "text"
                                              /\ it.has_text /\ it.text_is_str)
    IN Join("", [k \in 1..Len(texts) |-> texts[k].text])

\* C20: execute never raises: for every outcome of call_tool it returns a
\* ToolResult; success is true exactly when call_tool returned a result with
\* no "error" key; the text items of the content array are concatenated into
\* output; an error raised by call_tool gives success = false with the error
\* text.
C20_ExecuteNeverRaises ==
    Executed =>
        /\ execute_result.raised = NoExc
        /\ execute_result.value.success
              <=> (call_outcome.kind = "return" /\ ~call_outcome.value.has_error)
        /\ (execute_result.value.success /\ call_outcome.value.shape = "list"
              /\ TextParts(call_outcome.value.items) # <<>>) =>
                execute_result.value.output = TextsOf(call_outcome.value.items)
        /\ call_outcome.kind = "raise" =>
                execute_result.value.error
                    = "MCP tool error: " \o call_outcome.exc.msg

(***************************************************************************)
(* Claims about the Multiplexer                                            *)
(***************************************************************************)
\* a sequence of server indexes in configuration order, none twice
InConfigurationOrder(q) == \A a, b \in 1..Len(q) : a < b => q[a] < q[b]

\* C22: MCPMultiplexer.initialize never raises because servers fail: whatever
\* subset of the servers fails to connect, when the (first) call is over the
\* adapter list holds exactly the servers that connected, in configuration
\* order, and the multiplexer is initialized exactly when one or more connected;
\* each failure leaves the list as it was and the loop goes on to the next
\* server.
C22_InitializeSkipsFailures ==
    /\ [](mux_pc = "idle" /\ mux_inits = 1 =>
            /\ adapters = connected
            /\ InConfigurationOrder(adapters)
            /\ mux_initialized <=> adapters # <<>>)
    /\ [][mux_pc = "initialize" /\ mux_k \in Servers =>
            /\ mux_k' = mux_k + 1
            /\ mux_pc' = "initialize"
            /\ adapters' \in {adapters, Append(adapters, mux_k)}
            /\ (adapters' = adapters <=> connected' = connected)]_vars

\* the first and the third server connected, the second did not
C22_Witness ==
    /\ mux_pc = "idle"
    /\ mux_inits = 1
    /\ adapters = <<1, 3>>
    /\ mux_initialized

\* C23: call_tool on an initialized multiplexer forwards the call to the first
\* adapter whose tool list holds the name and returns that adapter's result; it
\* fails with 'not found' only when no adapter owns the name.
C23_CallToolForwards ==
    (mux_pc = "idle" /\ mux_result.kind = "raise" /\ mux_result.exc = NotFound)
        => forwarded = <<>>

(***************************************************************************)
(* Claims about the Planner                                                *)
(***************************************************************************)
\* a decide call in streaming mode has returned
StreamedDecide == ppc = "idle" /\ streaming /\ decide_result.kind = "return"

\* C24: decide in streaming mode never returns a partial Decision: when the
\* stream ended without a final response it has made one generate call and
\* returns that call's decision and usage; when the stream yielded a final
\* response it made no generate call and returns the decision and usage of that
\* response (the last one, should the stream yield several); every chunk and
\* no more went to the callback.  Generate is called at most once per decide.
C24_StreamFallback ==
    /\ generate_calls <= 1
    /\ StreamedDecide =>
        IF finals = <<>>
        THEN /\ generate_calls = 1
             /\ decide_result = Decided(Generated)
        ELSE /\ generate_calls = 0
             /\ decide_result = Decided(finals[Len(finals)])
             /\ decide_result.decision \in
                    {r.decision : r \in StreamResponses}
    /\ (ppc = "idle" /\ decide_result.kind = "raise") =>
            decide_result.decision \in {"stream_raised", "generate_raised"}

\* chunks only, then the fallback
C24_Witness ==
    /\ StreamedDecide
    /\ chunks_sent = 2
    /\ finals = <<>>
    /\ generate_calls = 1
    /\ decide_result.decision = "generated"

(***************************************************************************)
(* Claims about tool-call dispatch                                         *)
(***************************************************************************)
\* the tool names of a sequence of calls
CallNames(calls) == [k \in 1..Len(calls) |-> calls[k].name]

\* the k-th call of the decision is a form call and _act has returned for it
FormActed(k) ==
    /\ k <= Len(act_results)
    /\ act_calls[k].name = FormTool
    /\ act_results[k].kind = "return"

\* C25: a tool call named show_collaborative_form is never given to the
\* ToolRegistry, on the single and on the batched path and whatever its
\* payload and whether a form bridge is attached, while every other call is; an
\* invalid payload gives a failed action result; a valid request with no form
\* bridge gives a failed action result carrying an error; and after the bridge
\* round-trip has returned the action result is a success.
C25_FormIntercepted ==
    /\ \A k \in 1..Len(dispatched) : dispatched[k] # FormTool
    /\ fpc = "idle" =>
        dispatched = SelectSeq(CallNames(SubSeq(act_calls, 1, Len(act_results))),
                               LAMBDA n : n # FormTool)
    /\ \A k \in 1..Len(act_results) :
        act_calls[k].name = FormTool =>
            IF SchemaError(act_calls[k].args)
            THEN act_results[k] = ActionResult(FormTool, FALSE,
                                               "schema_validation_error")
            ELSE IF ~has_bridge
            THEN act_results[k] = ActionResult(FormTool, FALSE,
                                               "form_not_available_headless")
            ELSE FormActed(k) => act_results[k].success

\* a batched decision whose second call is a form call answered through the
\* bridge, after a tool call that went to the registry
C25_Witness ==
    /\ fpc = "idle"
    /\ Len(act_calls) = 2
    /\ act_calls[1].name = "calc"
    /\ FormActed(2)
    /\ act_calls[2].args = "valid"
    /\ has_bridge
    /\ act_results[2].success
    /\ dispatched = <<"calc">>

\* C27: under every sequence of commands put on the bridge's queue at any time,
\* at most one run_agent task (AgentLoop.run or run_continue) is in flight, and
\* a task is created only when the one before it has ended, by itself or
\* cancelled.
C27_OneRunAtATime ==
    /\ [](Cardinality(agent_tasks) <= 1)
    /\ [][agent_tasks' \ agent_tasks # {} =>
            /\ agent_tasks = {}
            /\ agent_task = NoTask
            /\ Head(command_queue) = "start"]_vars

\* a second run is in flight after the first one was cancelled by a command
C27_Witness ==
    /\ started = 2
    /\ 1 \in cancel_sent
    /\ agent_tasks = {2}
    /\ bpc = "wait"

\* the capability most recently given to register under a name
LastRegistered(calls, name) ==
    LET ks == {k \in 1..Len(calls) : calls[k].name = name}
    IN IF ks = {} THEN NoCapability
       ELSE calls[CHOOSE k \in ks : \A l \in ks : l <= k]

\* the names a sequence of register calls has registered
NamesRegistered(calls) == {calls[k].name : k \in 1..Len(calls)}

\* a list of specs has exactly one spec for each name of a set and no other
OneSpecPerName(specs, names) ==
    /\ \A n \in names : Cardinality({k \in 1..Len(specs) : specs[k] = n}) = 1
    /\ \A k \in 1..Len(specs) : specs[k] \in names

\* C31: after every sequence of register calls on a SubAgentRegistry, and
\* likewise on a ToolRegistry, get(name) is the capability most recently
\* registered under the name (None when there is none) and to_specs has exactly
\* one spec per distinct registered name; two agents registered under different
\* names give two specs holding both names.
C31_RegistryLastWins ==
    /\ \A n \in AgentRegNames :
        DictGet(reg_agents, n) = LastRegistered(agents_registered, n)
    /\ OneSpecPerName(AgentSpecs(reg_agents), NamesRegistered(agents_registered))
    /\ \A n \in ToolRegNames \cup RawSpecNames :
        DictGet(reg_tools, n) = LastRegistered(tools_registered, n)
    /\ raw_specs = <<>> =>
        OneSpecPerName(ToolSpecs(reg_tools, raw_specs),
                       NamesRegistered(tools_registered))
    /\ ToolSpecs(reg_tools, raw_specs) =
        ToolSpecs(reg_tools, <<>>) \o raw_specs
    /\ OneSpecPerName(ToolSpecs(reg_tools, <<>>),
                      NamesRegistered(tools_registered))

\* the summarizer, then a browser agent, then another browser agent were
\* registered: two specs, and get("browser") is the second browser agent
C31_Witness ==
    /\ agents_registered = <<Capability("summarizer", 1), Capability("browser", 1),
                             Capability("browser", 2)>>
    /\ AgentSpecs(reg_agents) = <<"summarizer", "browser">>
    /\ DictGet(reg_agents, "browser") = Capability("browser", 2)

\* the read loop reads the response to request i in this step
ResponseRead(i) ==
    /\ i \in sent
    /\ i \notin sent'
    /\ process # None
    /\ process' = process

\* C32: the slot of a request is in the pending map before the request is
\* written: every request written whose caller is still inside _send_request
\* with no response (not timed out, whether its drain has returned or not) has
\* its id in the pending map, and when the read loop reads its response the slot
\* is taken and the future gets the result or the error.
C32_SlotBeforeWrite ==
    /\ [](\A i \in Ids : (i \in sent /\ Outstanding(i)) => i \in pending_requests)
    /\ [][\A i \in Ids :
            (ResponseRead(i) /\ Outstanding(i)) =>
                /\ i \in pending_requests
                /\ i \notin pending_requests'
                /\ future'[i] \in {"result", "error"}]_vars

\* the response was read and set on the future while the caller was still
\* awaiting drain()
C32_Witness ==
    \E i \in Ids :
        /\ caller[i] = "drain"
        /\ future[i] = "result"
        /\ i \notin pending_requests
        /\ i # init_id

\* the place of a status on the path of a turn
StatusRank(st) ==
    CASE st = "PENDING" -> 0
      [] st = "REASONING" -> 1
      [] st = "DECIDING" -> 2
      [] st = "ACTING" -> 3
      [] st = "OBSERVING" -> 4
      [] st = "REFLECTING" -> 5
      [] st = "COMPLETED" -> 6
      [] st = "ERROR" -> 6

TurnSettled(t) == t.status \in {"COMPLETED", "ERROR"}

\* C33: a TurnState's status only moves forward along PENDING, DECIDING,
\* ACTING, OBSERVING, REFLECTING, COMPLETED, or from a status that is not
\* terminal to ERROR; a TurnState in COMPLETED or ERROR is not modified again;
\* and when a turn is in progress every earlier TurnState is COMPLETED or ERROR,
\* and when _run_loop has returned or was cancelled every TurnState is.
C33_TurnLifecycle ==
    /\ [](pc \in {"decide", "act", "reflect"} =>
            \A k \in 1..(Len(turns) - 1) : TurnSettled(turns[k]))
    /\ [](pc = "returned" => \A k \in 1..Len(turns) : TurnSettled(turns[k]))
    /\ [][\A k \in 1..Len(turns) :
            k <= Len(turns') =>
                /\ TurnSettled(turns[k]) => turns'[k] = turns[k]
                /\ turns'[k].status # turns[k].status =>
                    \/ turns'[k].status = "ERROR"
                    \/ /\ turns'[k].status # "ERROR"
                       /\ StatusRank(turns'[k].status) > StatusRank(turns[k].status)]_vars

\* C34: in every message of history, content is None exactly when tool_calls
\* is present: an assistant message that declares tool calls carries no text,
\* and every user message, tool message and assistant message without tool
\* calls (the final answer, a sub-agent's observation) carries content and no
\* tool_calls.
C34_ContentOrToolCalls ==
    \A i \in 1..Len(history) :
        LET m == history[i]
        IN /\ (m.content = NoContent) <=> (m.tool_calls # <<>>)
           /\ m.tool_calls # <<>> => m.role = "assistant"
           /\ m.role \in {"user", "tool"} =>
                m.content # NoContent /\ m.tool_calls = <<>>
           /\ m.role \in {"user", "assistant", "tool"}

\* a returned run whose history holds the four kinds of message: user,
\* assistant with tool_calls, tool, final assistant
C34_Witness ==
    /\ pc = "returned"
    /\ Len(history) = 4
    /\ history[1].role = "user"
    /\ history[2].role = "assistant" /\ history[2].tool_calls # <<>>
    /\ history[3].role = "tool"
    /\ history[4].role = "assistant" /\ history[4].content.kind = "text"

\* p is a prefix of q
IsPrefix(p, q) == Len(p) <= Len(q) /\ SubSeq(q, 1, Len(p)) = p

OnlyCompletedCalls ==
    \A k \in 1..Len(turns) :
        /\ turns[k].status = "COMPLETED"
        /\ turns[k].decision.type \in {"tool_call", "sub_agent_call"}

\* C36: a run that gets no RESPOND decision and has no failed turn uses its
\* whole budget: once max_turns such turns are done the loop starts no further
\* turn and returns, and when it has returned exactly max_turns turns were
\* made, end_time is stamped and the status is COMPLETED.
C36_BudgetExhaustedCompletes ==
    /\ [](pc = "returned" /\ OnlyCompletedCalls =>
            /\ Len(turns) = max_turns
            /\ current_turn = max_turns
            /\ end_time
            /\ status = "COMPLETED")
    /\ (pc = "loop" /\ OnlyCompletedCalls /\ current_turn = max_turns)
            ~> (pc = "returned" /\ OnlyCompletedCalls /\ status = "COMPLETED")

\* a run of the largest budget, every turn a tool or sub-agent call, has
\* returned
C36_Witness ==
    /\ pc = "returned"
    /\ runs = 1
    /\ max_turns = MaxTurnsBound
    /\ OnlyCompletedCalls
    /\ Len(turns) = MaxTurnsBound
    /\ turns[1].decision.type = "tool_call"
    /\ turns[2].decision.type = "sub_agent_call"
    /\ status = "COMPLETED"
    /\ end_time

\* C37: every run_continue call makes at least one decide call for its user
\* message, however many turns the earlier calls on the same AgentState have
\* used: a continued session that has returned has a turn made by its last
\* run_continue call.
C37_ContinueDecides ==
    (pc = "returned" /\ runs >= 2) => TurnsOfRun(runs) # {}

\* C38: once stdin has reached its end, the command loop exits and the
\* shutdown path runs, whether the end comes while the bridge waits for a
\* command or while an agent run is in flight.
C38_EofShutsDown == stdin_eof ~> (bpc = "closed")

\* the commands read so far that run_bridge neither acted on nor still holds
CommandsLost ==
    {k \in 1..received :
        /\ \A i \in 1..Len(processed) : processed[i] # k
        /\ \A i \in 1..Len(queue_ids) : queue_ids[i] # k
        /\ held_id # k}

\* the commands acted on so far are in increasing order of receipt
ProcessedInOrder ==
    \A i, j \in 1..Len(processed) : i < j => processed[i] < processed[j]

\* C39: every command read from stdin is processed exactly once and in the
\* order received: none is lost, and the commands acted on so far are in
\* increasing order of receipt, a command put back after it cancelled a run
\* included.
C39_OnceInOrder == CommandsLost = {} /\ ProcessedInOrder

\* C40: a server whose MCPClient.initialize failed after the process was
\* spawned leaves nothing behind: no adapter is kept for it, its process and
\* its read task are shut down, and its pending map has no entry.
C40_FailedLeavesNothing ==
    \A i \in 1..Len(mux_failed) :
         /\ ~mux_failed[i].process
         /\ ~mux_failed[i].read_task
         /\ mux_failed[i].pending = 0

\* the same for the process alone, once close() has closed every adapter
FailedShutByClose ==
    (mux_pc = "idle" /\ adapters # <<>> /\ mux_closed = Len(adapters))
        => \A i \in 1..Len(mux_failed) : ~mux_failed[i].process

====
